---- MODULE Spec2Model ----
(***************************************************************************)
(* Model of the schedule reflow engine: date-utils (shift-aware time       *)
(* arithmetic), DependencyResolver, ConstraintValidator and ReflowService. *)
(*                                                                         *)
(* Instants are minutes since a Sunday 00:00 UTC.  A date string is a      *)
(* record [t, fmt]: the instant it denotes and the ISO 8601 rendering it   *)
(* is written in.  "ms" is what luxon's toISO() produces                   *)
(* (...T08:00:00.000Z), "z" is the same instant without milliseconds       *)
(* (...T08:00:00Z).  Parsing (DateTime.fromISO) keeps only t; the code's   *)
(* string comparisons (>, <, !==) see the rendering as well.               *)
(***************************************************************************)
EXTENDS Integers, Sequences, FiniteSets, TLC

\* ------------------------------------------------------------------ bounds
MaxWorkOrders == 3
MaxDurationHours == 2
LastStartHour == 10

\* ------------------------------------------------------- program constants
MinutesPerHour == 60
MinutesPerDay == 1440
maxIterationsShift == 1000
maxIterationsNextShift == 100
maxIterationsSlot == 1000
NumberBase == 100

\* --------------------------------------------------------------- date-utils
\* luxon DateTime.weekday: 1 = Monday .. 7 = Sunday; day 0 of the model is a Sunday
Weekday(t) == (((t \div MinutesPerDay) + 6) % 7) + 1

\* the code's `weekday % 7`: Sunday = 0 .. Saturday = 6
DayOfWeek(t) == Weekday(t) % 7

StartOfDay(t) == (t \div MinutesPerDay) * MinutesPerDay

\* DateTime.toISO(): always the millisecond rendering
ToISO(t) == [t |-> t, fmt |-> "ms"]

\* DateTime.fromISO(s, {zone: 'utc'})
FromISO(d) == d.t

EmptyString == [t |-> 0, fmt |-> "empty"]

\* character code at the first position where two renderings of one instant differ
CharRank(fmt) == CASE fmt = "empty" -> 0
                   [] fmt = "ms" -> 46
                   [] fmt = "z" -> 90

\* JavaScript a > b on two date strings (lexicographic)
StrGT(a, b) ==
    IF a.fmt = "empty" THEN FALSE
    ELSE IF b.fmt = "empty" THEN TRUE
    ELSE a.t > b.t \/ (a.t = b.t /\ CharRank(a.fmt) > CharRank(b.fmt))

\* JavaScript a < b on two date strings
StrLT(a, b) == StrGT(b, a)

NoShift == [dayOfWeek |-> -1, startHour |-> 0, endHour |-> 0]

\* shifts.find(s => s.dayOfWeek === dayOfWeek): the first match, or undefined
FindShift(shifts, dayOfWeek) ==
    LET hits == {i \in 1..Len(shifts) : shifts[i].dayOfWeek = dayOfWeek}
    IN IF hits = {} THEN NoShift
       ELSE shifts[CHOOSE i \in hits : \A j \in hits : i <= j]

Thrown(kind) == [ok |-> FALSE, err |-> kind, date |-> EmptyString]
Returned(d) == [ok |-> TRUE, err |-> "none", date |-> d]

\* the loop condition of calculateEndDateWithShifts
CalcEndRunning(st) == st.remainingMinutes > 0 /\ st.iterations < maxIterationsShift

\* CalcEndStep with `availableMinutes > remainingMinutes` for `>=`: work that
\* fills the rest of a shift exactly is carried over to the next day
CalcEndStep_CarriesExactFit(st, shifts) ==
    IF ~CalcEndRunning(st) THEN st
    ELSE LET currentDate == st.currentDate
             shift == FindShift(shifts, DayOfWeek(currentDate))
             nextDay == StartOfDay(currentDate) + MinutesPerDay
             shiftStart == StartOfDay(currentDate) + shift.startHour * MinutesPerHour
             shiftEnd == StartOfDay(currentDate) + shift.endHour * MinutesPerHour
             availableMinutes == shiftEnd - currentDate
             iterations == st.iterations + 1
         IN IF shift = NoShift
            THEN [st EXCEPT !.currentDate = nextDay, !.iterations = iterations]
            ELSE IF currentDate < shiftStart
            THEN [st EXCEPT !.currentDate = shiftStart, !.iterations = iterations]
            ELSE IF currentDate >= shiftEnd
            THEN [st EXCEPT !.currentDate = nextDay, !.iterations = iterations]
            ELSE IF availableMinutes > st.remainingMinutes
            THEN [currentDate |-> currentDate + st.remainingMinutes,
                  remainingMinutes |-> 0, iterations |-> iterations]
            ELSE [currentDate |-> nextDay,
                  remainingMinutes |-> st.remainingMinutes - availableMinutes,
                  iterations |-> iterations]

\* one iteration of the while loop; a finished loop stays as it is
CalcEndStep(st, shifts) ==
    IF ~CalcEndRunning(st) THEN st
    ELSE LET currentDate == st.currentDate
             shift == FindShift(shifts, DayOfWeek(currentDate))
             nextDay == StartOfDay(currentDate) + MinutesPerDay
             shiftStart == StartOfDay(currentDate) + shift.startHour * MinutesPerHour
             shiftEnd == StartOfDay(currentDate) + shift.endHour * MinutesPerHour
             availableMinutes == shiftEnd - currentDate
             iterations == st.iterations + 1
         IN IF shift = NoShift
            THEN [st EXCEPT !.currentDate = nextDay, !.iterations = iterations]
            ELSE IF currentDate < shiftStart
            THEN [st EXCEPT !.currentDate = shiftStart, !.iterations = iterations]
            ELSE IF currentDate >= shiftEnd
            THEN [st EXCEPT !.currentDate = nextDay, !.iterations = iterations]
            ELSE IF availableMinutes >= st.remainingMinutes
            THEN [currentDate |-> currentDate + st.remainingMinutes,
                  remainingMinutes |-> 0, iterations |-> iterations]
            ELSE [currentDate |-> nextDay,
                  remainingMinutes |-> st.remainingMinutes - availableMinutes,
                  iterations |-> iterations]

\* the while loop, taken eight iterations at a time
RECURSIVE CalcEndLoop(_, _)
CalcEndLoop(st, shifts) ==
    IF CalcEndRunning(st)
    THEN LET s1 == CalcEndStep(st, shifts)
             s2 == CalcEndStep(s1, shifts)
             s3 == CalcEndStep(s2, shifts)
             s4 == CalcEndStep(s3, shifts)
             s5 == CalcEndStep(s4, shifts)
             s6 == CalcEndStep(s5, shifts)
             s7 == CalcEndStep(s6, shifts)
             s8 == CalcEndStep(s7, shifts)
         IN CalcEndLoop(s8, shifts)
    ELSE IF st.iterations >= maxIterationsShift
    THEN Thrown("SHIFT_CALC_CAP")
    ELSE Returned(ToISO(st.currentDate))

calculateEndDateWithShifts(startDate, durationMinutes, shifts) ==
    CalcEndLoop([currentDate |-> FromISO(startDate),
                 remainingMinutes |-> durationMinutes, iterations |-> 0], shifts)

\* timeRangesOverlap comparing start1 with start2 instead of end2
timeRangesOverlap_ComparesStarts(start1, end1, start2, end2) ==
    FromISO(start1) < FromISO(start2) /\ FromISO(end1) > FromISO(start2)

\* timeRangesOverlap taking ranges that only touch as overlapping
timeRangesOverlap_TouchingOverlaps(start1, end1, start2, end2) ==
    FromISO(start1) <= FromISO(end2) /\ FromISO(end1) >= FromISO(start2)

timeRangesOverlap(start1, end1, start2, end2) ==
    FromISO(start1) < FromISO(end2) /\ FromISO(end1) > FromISO(start2)

overlapsWithMaintenance(startDate, endDate, maintenanceWindows) ==
    \E i \in 1..Len(maintenanceWindows) :
        /\ FromISO(startDate) < FromISO(maintenanceWindows[i].endDate)
        /\ FromISO(endDate) > FromISO(maintenanceWindows[i].startDate)

\* one iteration of the while loop of findNextShiftStart; found is set where
\* the loop returns, currentDate is then the shift start returned
NextShiftStep(st, shifts) ==
    IF st.found \/ ~(st.iterations < maxIterationsNextShift) THEN st
    ELSE LET shift == FindShift(shifts, DayOfWeek(st.currentDate))
             shiftStart == StartOfDay(st.currentDate) + shift.startHour * MinutesPerHour
         IN IF shift # NoShift /\ st.currentDate <= shiftStart
            THEN [currentDate |-> shiftStart, iterations |-> st.iterations + 1,
                  found |-> TRUE]
            ELSE [currentDate |-> StartOfDay(st.currentDate) + MinutesPerDay,
                  iterations |-> st.iterations + 1, found |-> FALSE]

\* the while loop, taken eight iterations at a time
RECURSIVE NextShiftRun(_, _)
NextShiftRun(st, shifts) ==
    IF ~st.found /\ st.iterations < maxIterationsNextShift
    THEN LET s1 == NextShiftStep(st, shifts)
             s2 == NextShiftStep(s1, shifts)
             s3 == NextShiftStep(s2, shifts)
             s4 == NextShiftStep(s3, shifts)
             s5 == NextShiftStep(s4, shifts)
             s6 == NextShiftStep(s5, shifts)
             s7 == NextShiftStep(s6, shifts)
             s8 == NextShiftStep(s7, shifts)
         IN NextShiftRun(s8, shifts)
    ELSE st

\* findNextShiftStart without the throw that follows its loop
NextShiftLoop_ReturnsAtCap(currentDate, iterations, shifts) ==
    LET st == NextShiftRun([currentDate |-> currentDate, iterations |-> iterations,
                            found |-> FALSE], shifts)
    IN Returned(ToISO(st.currentDate))

NextShiftLoop(currentDate, iterations, shifts) ==
    LET st == NextShiftRun([currentDate |-> currentDate, iterations |-> iterations,
                            found |-> FALSE], shifts)
    IN IF st.found THEN Returned(ToISO(st.currentDate)) ELSE Thrown("NEXT_SHIFT_CAP")

findNextShiftStart(date, shifts) == NextShiftLoop(FromISO(date), 0, shifts)

\* calculateDelayMinutes that never reports an earlier end
calculateDelayMinutes_NeverNegative(originalDate, newDate) == IF FromISO(newDate) > FromISO(originalDate) THEN FromISO(newDate) - FromISO(originalDate) ELSE 0

calculateDelayMinutes(originalDate, newDate) == FromISO(newDate) - FromISO(originalDate)

\* isWithinShiftHours without the test against the shift's opening hour
isWithinShiftHours_NoOpeningTest(date, shifts) ==
    LET shift == FindShift(shifts, DayOfWeek(FromISO(date)))
        currentMinutes == FromISO(date) - StartOfDay(FromISO(date))
    IN /\ shift # NoShift
       /\ currentMinutes < shift.endHour * MinutesPerHour

isWithinShiftHours(date, shifts) ==
    LET shift == FindShift(shifts, DayOfWeek(FromISO(date)))
        currentMinutes == FromISO(date) - StartOfDay(FromISO(date))
    IN /\ shift # NoShift
       /\ currentMinutes >= shift.startHour * MinutesPerHour
       /\ currentMinutes < shift.endHour * MinutesPerHour

\* ------------------------------------------------------ DependencyResolver
\* the position of the work order whose docId is id, 0 when there is none
\* (workOrders.find / Map.get returning undefined)
IndexOf(workOrders, id) ==
    LET hits == {i \in 1..Len(workOrders) : workOrders[i].docId = id}
    IN IF hits = {} THEN 0 ELSE CHOOSE i \in hits : \A j \in hits : i <= j

DocIds(workOrders) == {workOrders[i].docId : i \in 1..Len(workOrders)}

\* the (child, parent) pairs in the order the second forEach of
\* buildDependencyGraph visits them
RECURSIVE EdgeList(_, _)
EdgeList(workOrders, i) ==
    IF i > Len(workOrders) THEN <<>>
    ELSE [k \in 1..Len(workOrders[i].dependsOnWorkOrderIds) |->
              <<workOrders[i].docId, workOrders[i].dependsOnWorkOrderIds[k]>>]
         \o EdgeList(workOrders, i + 1)

ChildrenOf(workOrders, id) ==
    LET mine == SelectSeq(EdgeList(workOrders, 1), LAMBDA e : e[2] = id)
    IN [k \in 1..Len(mine) |-> mine[k][1]]

\* buildDependencyGraph whose error names the child of the dangling edge and
\* not the parent id that is missing
buildDependencyGraph_NamesChild(workOrders) ==
    LET edges == EdgeList(workOrders, 1)
        dangling == {k \in 1..Len(edges) : edges[k][2] \notin DocIds(workOrders)}
        first == CHOOSE k \in dangling : \A j \in dangling : k <= j
    IN IF dangling # {}
       THEN [ok |-> FALSE, err |-> "DANGLING_DEPENDENCY", names |-> <<edges[first][1]>>,
             keys |-> <<>>, node |-> <<>>]
       ELSE [ok |-> TRUE, err |-> "none", names |-> <<>>,
             keys |-> [i \in 1..Len(workOrders) |-> workOrders[i].docId],
             node |-> [id \in DocIds(workOrders) |->
                          [parents |-> workOrders[IndexOf(workOrders, id)].dependsOnWorkOrderIds,
                           children |-> ChildrenOf(workOrders, id)]]]

\* [ok, keys, node]: keys is the Map's insertion order; the error thrown at
\* the first edge whose parent is not a key names that parent id
buildDependencyGraph(workOrders) ==
    LET edges == EdgeList(workOrders, 1)
        dangling == {k \in 1..Len(edges) : edges[k][2] \notin DocIds(workOrders)}
        first == CHOOSE k \in dangling : \A j \in dangling : k <= j
    IN IF dangling # {}
       THEN [ok |-> FALSE, err |-> "DANGLING_DEPENDENCY", names |-> <<edges[first][2]>>,
             keys |-> <<>>, node |-> <<>>]
       ELSE [ok |-> TRUE, err |-> "none", names |-> <<>>,
             keys |-> [i \in 1..Len(workOrders) |-> workOrders[i].docId],
             node |-> [id \in DocIds(workOrders) |->
                          [parents |-> workOrders[IndexOf(workOrders, id)].dependsOnWorkOrderIds,
                           children |-> ChildrenOf(workOrders, id)]]]

WHITE == 0
GRAY == 1
BLACK == 2

RECURSIVE dfs(_, _, _, _), DfsParents(_, _, _, _, _)
\* [found, colors, cycleNodes, visits]; path is restored by the caller's view
\* when the call returns false (push at entry, pop at exit); visits is the
\* number of calls of dfs made, this one included
dfs(graph, nodeId, colors, path) ==
    LET r == DfsParents(graph, nodeId, 1, [colors EXCEPT ![nodeId] = GRAY],
                        Append(path, nodeId))
    IN IF r.found THEN [r EXCEPT !.visits = @ + 1]
       ELSE [found |-> FALSE, colors |-> [r.colors EXCEPT ![nodeId] = BLACK],
             cycleNodes |-> <<>>, visits |-> r.visits + 1]

DfsParents(graph, nodeId, k, colors, path) ==
    IF k > Len(graph.node[nodeId].parents)
    THEN [found |-> FALSE, colors |-> colors, cycleNodes |-> <<>>, visits |-> 0]
    ELSE LET parentId == graph.node[nodeId].parents[k]
         IN IF colors[parentId] = GRAY
            THEN [found |-> TRUE, colors |-> colors,
                  cycleNodes |-> Append(path, parentId), visits |-> 0]
            ELSE IF colors[parentId] = WHITE
            THEN LET r == dfs(graph, parentId, colors, path)
                 IN IF r.found THEN r
                    ELSE [DfsParents(graph, nodeId, k + 1, r.colors, path)
                              EXCEPT !.visits = @ + r.visits]
            ELSE DfsParents(graph, nodeId, k + 1, colors, path)

RECURSIVE DetectLoop(_, _, _)
DetectLoop(graph, i, colors) ==
    IF i > Len(graph.keys)
    THEN [found |-> FALSE, colors |-> colors, cycleNodes |-> <<>>, visits |-> 0]
    ELSE IF colors[graph.keys[i]] = WHITE
    THEN LET r == dfs(graph, graph.keys[i], colors, <<>>)
         IN IF r.found THEN r
            ELSE [DetectLoop(graph, i + 1, r.colors) EXCEPT !.visits = @ + r.visits]
    ELSE DetectLoop(graph, i + 1, colors)

\* detectCycles that starts its search at the first node only and leaves the
\* other components unexamined
detectCycles_FirstNodeOnly(graph) ==
    IF Len(graph.keys) = 0
    THEN [found |-> FALSE, colors |-> <<>>, cycleNodes |-> <<>>, visits |-> 0]
    ELSE dfs(graph, graph.keys[1], [id \in DOMAIN graph.node |-> WHITE], <<>>)

\* found = a CIRCULAR_DEPENDENCY error is returned; ~found = null
detectCycles(graph) ==
    DetectLoop(graph, 1, [id \in DOMAIN graph.node |-> WHITE])

\* ReleaseChildren without the test `currentDegree - 1 === 0`: a child is
\* enqueued each time one of its parents is dequeued
RECURSIVE ReleaseChildren_EnqueuesAtOnce(_, _, _, _)
ReleaseChildren_EnqueuesAtOnce(children, k, inDegree, queue) ==
    IF k > Len(children) THEN [inDegree |-> inDegree, queue |-> queue]
    ELSE LET childId == children[k]
             currentDegree == inDegree[childId]
         IN ReleaseChildren_EnqueuesAtOnce(children, k + 1,
                            [inDegree EXCEPT ![childId] = currentDegree - 1],
                            Append(queue, childId))

RECURSIVE ReleaseChildren_EachChildOnce(_, _, _, _)
\* the children of a node taken as a set: a child listed twice is decremented once
ReleaseChildren_EachChildOnce(children, k, inDegree, queue) ==
    IF k > Len(children) THEN [inDegree |-> inDegree, queue |-> queue]
    ELSE LET childId == children[k]
             currentDegree == inDegree[childId]
         IN IF \E j \in 1..(k - 1) : children[j] = childId
            THEN ReleaseChildren_EachChildOnce(children, k + 1, inDegree, queue)
            ELSE ReleaseChildren_EachChildOnce(children, k + 1,
                            [inDegree EXCEPT ![childId] = currentDegree - 1],
                            IF currentDegree - 1 = 0 THEN Append(queue, childId)
                            ELSE queue)

RECURSIVE ReleaseChildren(_, _, _, _)
\* node.children.forEach: decrement, enqueue the children that reach zero
ReleaseChildren(children, k, inDegree, queue) ==
    IF k > Len(children) THEN [inDegree |-> inDegree, queue |-> queue]
    ELSE LET childId == children[k]
             currentDegree == inDegree[childId]
         IN ReleaseChildren(children, k + 1,
                            [inDegree EXCEPT ![childId] = currentDegree - 1],
                            IF currentDegree - 1 = 0 THEN Append(queue, childId)
                            ELSE queue)

RECURSIVE KahnLoop_TakesLast(_, _, _, _)
\* the queue used as a stack: queue.pop() instead of queue.shift()
KahnLoop_TakesLast(graph, inDegree, queue, sorted) ==
    IF Len(queue) = 0 THEN sorted
    ELSE LET nodeId == queue[Len(queue)]
             r == ReleaseChildren(graph.node[nodeId].children, 1, inDegree,
                                  SubSeq(queue, 1, Len(queue) - 1))
         IN KahnLoop_TakesLast(graph, r.inDegree, r.queue, Append(sorted, nodeId))

RECURSIVE KahnLoop(_, _, _, _)
KahnLoop(graph, inDegree, queue, sorted) ==
    IF Len(queue) = 0 THEN sorted
    ELSE LET nodeId == Head(queue)
             r == ReleaseChildren(graph.node[nodeId].children, 1, inDegree, Tail(queue))
         IN KahnLoop(graph, r.inDegree, r.queue, Append(sorted, nodeId))

\* topologicalSort without the detectCycles call: only the length test remains
topologicalSort_WithoutCycleCheck(workOrders) ==
    LET graph == buildDependencyGraph(workOrders)
    IN IF ~graph.ok
       THEN [ok |-> FALSE, err |-> graph.err, names |-> graph.names, order |-> <<>>]
       ELSE LET inDegree == [id \in DOMAIN graph.node |-> Len(graph.node[id].parents)]
                queue == SelectSeq(graph.keys, LAMBDA id : inDegree[id] = 0)
                sorted == KahnLoop(graph, inDegree, queue, <<>>)
            IN IF Len(sorted) # Len(workOrders)
               THEN [ok |-> FALSE, err |-> "TOPOLOGICAL_SORT_FAILED", names |-> <<>>,
                     order |-> <<>>]
               ELSE [ok |-> TRUE, err |-> "none", names |-> <<>>, order |-> sorted]

\* [ok, err, order]: order is the sequence of docIds in execution order
topologicalSort(workOrders) ==
    LET graph == buildDependencyGraph(workOrders)
    IN IF ~graph.ok
       THEN [ok |-> FALSE, err |-> graph.err, names |-> graph.names, order |-> <<>>]
       ELSE IF detectCycles(graph).found
       THEN [ok |-> FALSE, err |-> "CIRCULAR_DEPENDENCY", names |-> <<>>, order |-> <<>>]
       ELSE LET inDegree == [id \in DOMAIN graph.node |-> Len(graph.node[id].parents)]
                queue == SelectSeq(graph.keys, LAMBDA id : inDegree[id] = 0)
                sorted == KahnLoop(graph, inDegree, queue, <<>>)
            IN IF Len(sorted) # Len(workOrders)
               THEN [ok |-> FALSE, err |-> "TOPOLOGICAL_SORT_FAILED", names |-> <<>>,
                     order |-> <<>>]
               ELSE [ok |-> TRUE, err |-> "none", names |-> <<>>, order |-> sorted]

\* workOrders.filter(wo => wo.data.dependsOnWorkOrderIds.includes(workOrderId)),
\* as docIds
getChildren(workOrderId, workOrders) ==
    LET children == SelectSeq(workOrders, LAMBDA wo :
                        \E d \in 1..Len(wo.dependsOnWorkOrderIds) :
                            wo.dependsOnWorkOrderIds[d] = workOrderId)
    IN [k \in 1..Len(children) |-> children[k].docId]

RECURSIVE AddChildren(_, _, _, _)
\* children.forEach: a child not yet in descendants is added and enqueued
AddChildren(children, k, descendants, queue) ==
    IF k > Len(children) THEN [descendants |-> descendants, queue |-> queue]
    ELSE IF children[k] \in descendants
    THEN AddChildren(children, k + 1, descendants, queue)
    ELSE AddChildren(children, k + 1, descendants \cup {children[k]},
                     Append(queue, children[k]))

RECURSIVE DescendantsLoop(_, _, _)
\* while (queue.length > 0)
DescendantsLoop(queue, descendants, workOrders) ==
    IF Len(queue) = 0 THEN descendants
    ELSE LET r == AddChildren(getChildren(Head(queue), workOrders), 1, descendants,
                              Tail(queue))
         IN DescendantsLoop(r.queue, r.descendants, workOrders)

\* the descendants are filtered out of workOrders and sorted on their own
getAllDescendants(workOrderId, workOrders) ==
    LET descendants == DescendantsLoop(<<workOrderId>>, {}, workOrders)
        descendantOrders == SelectSeq(workOrders, LAMBDA wo : wo.docId \in descendants)
    IN topologicalSort(descendantOrders)

\* ------------------------------------------------------ ConstraintValidator
NoWorkCenter == [docId |-> 0, shifts |-> <<>>, maintenanceWindows |-> <<>>]

\* workCenterMap.get(id): the work center, or undefined
WorkCenterGet(workCenters, id) ==
    LET hits == {i \in 1..Len(workCenters) : workCenters[i].docId = id}
    IN IF hits = {} THEN NoWorkCenter
       ELSE workCenters[CHOOSE i \in hits : \A j \in hits : i >= j]

\* the text of an error message: its fixed wording, the work center id or
\* name it quotes (0 when none) and the workOrderNumbers it quotes
Message(wording, workCenter, workOrderNumbers) ==
    [wording |-> wording, workCenter |-> workCenter,
     workOrderNumbers |-> workOrderNumbers]

ValidationError(type, message, ids) ==
    [type |-> type, message |-> message, workOrderIds |-> ids]

\* concatenation of f[1] \o ... \o f[n]
RECURSIVE FlattenFrom(_, _)
FlattenFrom(f, i) == IF i > Len(f) THEN <<>> ELSE f[i] \o FlattenFrom(f, i + 1)

\* the parents that exist (map + filter undefined), in listed order
ParentsOf(wo, workOrders) ==
    LET found == SelectSeq(wo.dependsOnWorkOrderIds,
                           LAMBDA id : IndexOf(workOrders, id) # 0)
    IN [k \in 1..Len(found) |-> workOrders[IndexOf(workOrders, found[k])]]

\* validateDependencies comparing the parent's start, not its end, with the
\* child's start
validateDependencies_ComparesParentStart(workOrders) ==
    FlattenFrom([i \in 1..Len(workOrders) |->
        LET wo == workOrders[i]
            parents == ParentsOf(wo, workOrders)
            late == SelectSeq(parents, LAMBDA parent : StrGT(parent.startDate, wo.startDate))
        IN [k \in 1..Len(late) |->
               ValidationError("DEPENDENCY_VIOLATION",
                   Message("starts before dependency completes", 0,
                           <<wo.workOrderNumber, late[k].workOrderNumber>>),
                   <<wo.docId, late[k].docId>>)]], 1)

validateDependencies(workOrders) ==
    FlattenFrom([i \in 1..Len(workOrders) |->
        LET wo == workOrders[i]
            parents == ParentsOf(wo, workOrders)
            late == SelectSeq(parents, LAMBDA parent : StrGT(parent.endDate, wo.startDate))
        IN [k \in 1..Len(late) |->
               ValidationError("DEPENDENCY_VIOLATION",
                   Message("starts before dependency completes", 0,
                           <<wo.workOrderNumber, late[k].workOrderNumber>>),
                   <<wo.docId, late[k].docId>>)]], 1)

\* one error per pair i < j of one work center group (listed by first index)
validateWorkCenterConflicts(workOrders) ==
    LET n == Len(workOrders)
        pairAt(k) == <<((k - 1) \div n) + 1, ((k - 1) % n) + 1>>
        clash(k) == LET i == pairAt(k)[1]
                        j == pairAt(k)[2]
                    IN /\ i < j
                       /\ workOrders[i].workCenterId = workOrders[j].workCenterId
                       /\ timeRangesOverlap(workOrders[i].startDate, workOrders[i].endDate,
                                            workOrders[j].startDate, workOrders[j].endDate)
        hits == SelectSeq([k \in 1..(n * n) |-> k], clash)
    IN [k \in 1..Len(hits) |->
           ValidationError("WORK_CENTER_CONFLICT",
                           Message("has overlapping work orders",
                                   workOrders[pairAt(hits[k])[1]].workCenterId,
                                   <<workOrders[pairAt(hits[k])[1]].workOrderNumber,
                                     workOrders[pairAt(hits[k])[2]].workOrderNumber>>),
                           <<workOrders[pairAt(hits[k])[1]].docId,
                             workOrders[pairAt(hits[k])[2]].docId>>)]

\* validateShiftBoundaries that looks at the movable work orders only
validateShiftBoundaries_MovableOnly(workOrders, workCenters) ==
    FlattenFrom([i \in 1..Len(workOrders) |->
        LET wo == workOrders[i]
            workCenter == WorkCenterGet(workCenters, wo.workCenterId)
        IN IF wo.isMaintenance THEN <<>>
           ELSE IF workCenter = NoWorkCenter \/ Len(workCenter.shifts) = 0
                   \/ ~isWithinShiftHours(wo.startDate, workCenter.shifts)
           THEN <<ValidationError("SHIFT_VIOLATION",
                      Message("starts outside shift hours", 0, <<wo.workOrderNumber>>),
                      <<wo.docId>>)>>
           ELSE <<>>], 1)

validateShiftBoundaries(workOrders, workCenters) ==
    FlattenFrom([i \in 1..Len(workOrders) |->
        LET wo == workOrders[i]
            workCenter == WorkCenterGet(workCenters, wo.workCenterId)
        IN IF workCenter = NoWorkCenter
           THEN <<ValidationError("SHIFT_VIOLATION",
                      Message("references non-existent work center", wo.workCenterId,
                              <<wo.workOrderNumber>>),
                      <<wo.docId>>)>>
           ELSE (IF Len(workCenter.shifts) = 0
                 THEN <<ValidationError("SHIFT_VIOLATION",
                            Message("has no shifts defined", workCenter.docId, <<>>),
                            <<wo.docId>>)>>
                 ELSE <<>>)
                \o (IF ~isWithinShiftHours(wo.startDate, workCenter.shifts)
                    THEN <<ValidationError("SHIFT_VIOLATION",
                               Message("starts outside shift hours", 0,
                                       <<wo.workOrderNumber>>),
                               <<wo.docId>>)>>
                    ELSE <<>>)], 1)

validateMaintenanceWindows(workOrders, workCenters) ==
    FlattenFrom([i \in 1..Len(workOrders) |->
        LET wo == workOrders[i]
            workCenter == WorkCenterGet(workCenters, wo.workCenterId)
        IN IF workCenter = NoWorkCenter THEN <<>>
           ELSE IF overlapsWithMaintenance(wo.startDate, wo.endDate,
                                           workCenter.maintenanceWindows)
           THEN <<ValidationError("MAINTENANCE_CONFLICT",
                      Message("overlaps with maintenance window", workCenter.docId,
                              <<wo.workOrderNumber>>),
                      <<wo.docId>>)>>
           ELSE <<>>], 1)

\* [ok, errors]; ok is false when buildDependencyGraph throws
validateAll(workOrders, workCenters) ==
    LET graph == buildDependencyGraph(workOrders)
    IN IF ~graph.ok THEN [ok |-> FALSE, err |-> graph.err, errors |-> <<>>]
       ELSE [ok |-> TRUE, err |-> "none",
             errors |->
               (IF detectCycles(graph).found
                THEN <<ValidationError("CIRCULAR_DEPENDENCY",
                           Message("Circular dependency detected", 0, <<>>),
                           detectCycles(graph).cycleNodes)>>
                ELSE <<>>)
               \o validateDependencies(workOrders)
               \o validateWorkCenterConflicts(workOrders)
               \o validateShiftBoundaries(workOrders, workCenters)
               \o validateMaintenanceWindows(workOrders, workCenters)]

\* ----------------------------------------------------------- ReflowService
\* the thrown message quoting the first validation error only
InvalidScheduleMessage_FirstOnly(errors) == IF Len(errors) = 0 THEN <<>> ELSE <<errors[1].message>>

\* errors.map(e => `- ${e.message}`).join('\n'): the messages that the text
\* 'Reflow produced invalid schedule:' is followed by, one per line
InvalidScheduleMessage(errors) == [k \in 1..Len(errors) |-> errors[k].message]

\* adjustToShiftStart with `currentMinutes > shiftEndMinutes` for `>=`: the
\* closing instant of a shift is taken to be inside it
adjustToShiftStart_StaysAtShiftEnd(date, workCenter) ==
    IF workCenter = NoWorkCenter THEN Thrown("TYPE_ERROR")
    ELSE LET dt == FromISO(date)
             shift == FindShift(workCenter.shifts, DayOfWeek(dt))
             currentMinutes == dt - StartOfDay(dt)
         IN IF shift = NoShift
            THEN findNextShiftStart(date, workCenter.shifts)
            ELSE IF currentMinutes < shift.startHour * MinutesPerHour
            THEN Returned(ToISO(StartOfDay(dt) + shift.startHour * MinutesPerHour))
            ELSE IF currentMinutes > shift.endHour * MinutesPerHour
            THEN findNextShiftStart(date, workCenter.shifts)
            ELSE Returned(date)

\* reading workCenter.data of an undefined work center throws a TypeError
adjustToShiftStart(date, workCenter) ==
    IF workCenter = NoWorkCenter THEN Thrown("TYPE_ERROR")
    ELSE LET dt == FromISO(date)
             shift == FindShift(workCenter.shifts, DayOfWeek(dt))
             currentMinutes == dt - StartOfDay(dt)
         IN IF shift = NoShift
            THEN findNextShiftStart(date, workCenter.shifts)
            ELSE IF currentMinutes < shift.startHour * MinutesPerHour
            THEN Returned(ToISO(StartOfDay(dt) + shift.startHour * MinutesPerHour))
            ELSE IF currentMinutes >= shift.endHour * MinutesPerHour
            THEN findNextShiftStart(date, workCenter.shifts)
            ELSE Returned(date)

\* the other work orders on the same work center that overlap [startDate, endDate)
ConflictingOrders(startDate, endDate, workOrder, allWorkOrders) ==
    SelectSeq(allWorkOrders, LAMBDA wo :
        /\ wo.docId # workOrder.docId
        /\ wo.workCenterId = workOrder.workCenterId
        /\ timeRangesOverlap(startDate, endDate, wo.startDate, wo.endDate))

isSlotAvailable(startDate, endDate, workOrder, allWorkOrders, workCenter) ==
    /\ Len(ConflictingOrders(startDate, endDate, workOrder, allWorkOrders)) = 0
    /\ ~overlapsWithMaintenance(startDate, endDate, workCenter.maintenanceWindows)

\* blockingPeriods.reduce((earliest, p) => p.end < earliest ? p.end : earliest, first.end)
RECURSIVE EarliestEnd(_, _, _)
EarliestEnd(blockingPeriods, k, earliest) ==
    IF k > Len(blockingPeriods) THEN earliest
    ELSE EarliestEnd(blockingPeriods, k + 1,
                     IF StrLT(blockingPeriods[k].endDate, earliest)
                     THEN blockingPeriods[k].endDate ELSE earliest)

\* blockingPeriods without its second forEach: the maintenance windows are
\* not collected
BlockingPeriods_OrdersOnly(currentStart, currentEnd, workOrder, allWorkOrders, workCenter) ==
    LET orders == SelectSeq(allWorkOrders, LAMBDA wo :
                      /\ wo.docId # workOrder.docId
                      /\ wo.workCenterId = workOrder.workCenterId
                      /\ timeRangesOverlap(currentStart, currentEnd, wo.startDate,
                                           wo.endDate))
    IN [k \in 1..Len(orders) |->
           [startDate |-> orders[k].startDate, endDate |-> orders[k].endDate]]

\* blockingPeriods without the overlap tests: every other work order on the
\* work center and every maintenance window counts as a blocker
BlockingPeriods_AnyOnCenter(currentStart, currentEnd, workOrder, allWorkOrders, workCenter) ==
    LET orders == SelectSeq(allWorkOrders, LAMBDA wo :
                      /\ wo.docId # workOrder.docId
                      /\ wo.workCenterId = workOrder.workCenterId)
        windows == workCenter.maintenanceWindows
    IN [k \in 1..Len(orders) |->
           [startDate |-> orders[k].startDate, endDate |-> orders[k].endDate]]
       \o [k \in 1..Len(windows) |->
           [startDate |-> windows[k].startDate, endDate |-> windows[k].endDate]]

BlockingPeriods(currentStart, currentEnd, workOrder, allWorkOrders, workCenter) ==
    LET orders == ConflictingOrders(currentStart, currentEnd, workOrder, allWorkOrders)
        windows == SelectSeq(workCenter.maintenanceWindows, LAMBDA w :
                       timeRangesOverlap(currentStart, currentEnd, w.startDate, w.endDate))
    IN [k \in 1..Len(orders) |->
           [startDate |-> orders[k].startDate, endDate |-> orders[k].endDate]]
       \o [k \in 1..Len(windows) |->
           [startDate |-> windows[k].startDate, endDate |-> windows[k].endDate]]

\* findNextPotentialStart advancing one hour past the earliest blocker end
findNextPotentialStart_HourPastBlocker(currentStart, currentEnd, workOrder, allWorkOrders, workCenter) ==
    LET blockingPeriods == BlockingPeriods(currentStart, currentEnd, workOrder,
                                           allWorkOrders, workCenter)
    IN IF Len(blockingPeriods) = 0
       THEN ToISO(FromISO(currentStart) + MinutesPerHour)
       ELSE ToISO(FromISO(EarliestEnd(blockingPeriods, 1, blockingPeriods[1].endDate))
                  + MinutesPerHour)

findNextPotentialStart(currentStart, currentEnd, workOrder, allWorkOrders, workCenter) ==
    LET blockingPeriods == BlockingPeriods(currentStart, currentEnd, workOrder,
                                           allWorkOrders, workCenter)
    IN IF Len(blockingPeriods) = 0
       THEN ToISO(FromISO(currentStart) + MinutesPerHour)
       ELSE EarliestEnd(blockingPeriods, 1, blockingPeriods[1].endDate)

RECURSIVE SlotLoop(_, _, _, _, _)
SlotLoop(candidateStart, iterations, workOrder, allWorkOrders, workCenter) ==
    IF ~(iterations < maxIterationsSlot) THEN Thrown("SLOT_CAP")
    ELSE LET Try(adjustedStart, candidateEnd) ==
                 IF ~candidateEnd.ok THEN candidateEnd
                 ELSE IF isSlotAvailable(adjustedStart, candidateEnd.date, workOrder,
                                         allWorkOrders, workCenter)
                 THEN Returned(adjustedStart)
                 ELSE SlotLoop(findNextPotentialStart(adjustedStart, candidateEnd.date,
                                   workOrder, allWorkOrders, workCenter),
                               iterations + 1, workOrder, allWorkOrders, workCenter)
             From(adjusted) ==
                 IF ~adjusted.ok THEN adjusted
                 ELSE Try(adjusted.date,
                          calculateEndDateWithShifts(adjusted.date,
                              workOrder.durationMinutes, workCenter.shifts))
         IN From(adjustToShiftStart(candidateStart, workCenter))

findNextAvailableSlot(startFrom, workOrder, allWorkOrders, workCenter) ==
    SlotLoop(startFrom, 0, workOrder, allWorkOrders, workCenter)

\* parents.reduce((latest, p) => p.endDate > latest ? p.endDate : latest, '')
RECURSIVE LatestParentEnd(_, _, _)
LatestParentEnd(parents, k, latest) ==
    IF k > Len(parents) THEN latest
    ELSE LatestParentEnd(parents, k + 1,
                         IF StrGT(parents[k].endDate, latest)
                         THEN parents[k].endDate ELSE latest)

\* DependencyFloor without the parents: the order's own start
DependencyFloor_IgnoresParents(workOrder, allWorkOrders) == workOrder.startDate

\* the candidate start after "Check 1" (dependencies)
DependencyFloor(workOrder, allWorkOrders) ==
    LET parents == ParentsOf(workOrder, allWorkOrders)
        latestParentEnd == LatestParentEnd(parents, 1, EmptyString)
    IN IF Len(parents) > 0 /\ StrGT(latestParentEnd, workOrder.startDate)
       THEN latestParentEnd ELSE workOrder.startDate

calculateEarliestStartTime(workOrder, allWorkOrders, workCenters) ==
    findNextAvailableSlot(DependencyFloor(workOrder, allWorkOrders), workOrder,
                          allWorkOrders,
                          WorkCenterGet(workCenters, workOrder.workCenterId))

\* the two parts of the reason text: the parents waited for, the first occupant
generateChangeReason(workOrder, allWorkOrders, workCenters) ==
    LET parents == ParentsOf(workOrder, allWorkOrders)
        delayedParents == SelectSeq(parents, LAMBDA p :
                              StrGT(p.endDate, workOrder.startDate))
        conflicting == SelectSeq(allWorkOrders, LAMBDA wo :
                           /\ wo.docId # workOrder.docId
                           /\ wo.workCenterId = workOrder.workCenterId
                           /\ StrGT(wo.endDate, workOrder.startDate)
                           /\ StrLT(wo.startDate, workOrder.startDate))
    IN [waitingFor |-> [k \in 1..Len(delayedParents) |-> delayedParents[k].docId],
        busyWith |-> IF WorkCenterGet(workCenters, workOrder.workCenterId) # NoWorkCenter
                        /\ Len(conflicting) > 0
                     THEN <<conflicting[1].docId>> ELSE <<>>]

RECURSIVE SumFrom(_, _)
\* numbers.reduce((sum, x) => sum + x, 0), from position k on
SumFrom(numbers, k) ==
    IF k > Len(numbers) THEN 0 ELSE numbers[k] + SumFrom(numbers, k + 1)

\* Math.round(numerator / denominator) for a positive denominator: the
\* nearest integer, a half rounded towards plus infinity
RoundedQuotient(numerator, denominator) ==
    (2 * numerator + denominator) \div (2 * denominator)

\* generateExplanation without its first return: the totals of an empty list
generateExplanation_AlwaysTotals(changeList) ==
    [text |-> "Rescheduled work order(s)", count |-> Len(changeList),
     totalDelay |-> SumFrom([k \in 1..Len(changeList) |-> changeList[k].delayMinutes], 1),
     avgDelay |-> 0]

\* the figures that generateExplanation puts into its text
generateExplanation(changeList) ==
    IF Len(changeList) = 0
    THEN [text |-> "No changes needed - schedule is valid"]
    ELSE LET totalDelay == SumFrom([k \in 1..Len(changeList) |-> changeList[k].delayMinutes], 1)
         IN [text |-> "Rescheduled work order(s)", count |-> Len(changeList),
             totalDelay |-> totalDelay,
             avgDelay |-> RoundedQuotient(totalDelay, Len(changeList))]

\* the factor of `Math.round(utilization * 100) / 100` and of `* 100` (per cent)
PerCent == 100

\* calculateMetrics that adds up the delays as they are, negative ones too
calculateMetrics_SumsSignedDelays(changeList, workOrders, workCenters) ==
    [totalDelayMinutes |-> SumFrom([k \in 1..Len(changeList) |-> changeList[k].delayMinutes], 1),
     workOrdersAffected |-> Len(changeList)]

\* workCenterUtilization is given in hundredths of a per cent, per position
\* of the work center in the input
calculateMetrics(changeList, workOrders, workCenters) ==
    [totalDelayMinutes |->
         SumFrom([k \in 1..Len(changeList) |->
                     IF changeList[k].delayMinutes > 0
                     THEN changeList[k].delayMinutes ELSE 0], 1),
     workOrdersAffected |-> Len(changeList),
     workCenterUtilization |->
         [w \in 1..Len(workCenters) |->
             LET orders == SelectSeq(workOrders, LAMBDA wo :
                               wo.workCenterId = workCenters[w].docId)
                 totalWorkingMinutes ==
                     SumFrom([k \in 1..Len(orders) |-> orders[k].durationMinutes], 1)
                 weeklyShiftMinutes ==
                     SumFrom([k \in 1..Len(workCenters[w].shifts) |->
                                 (workCenters[w].shifts[k].endHour
                                      - workCenters[w].shifts[k].startHour)
                                     * MinutesPerHour], 1)
             IN IF weeklyShiftMinutes > 0
                THEN RoundedQuotient(totalWorkingMinutes * PerCent * PerCent,
                                     weeklyShiftMinutes)
                ELSE 0]]

\* ------------------------------------------------------------------ inputs
At(day, hour) == day * MinutesPerDay + hour * MinutesPerHour

Shift(day, startHour, endHour) ==
    [dayOfWeek |-> day, startHour |-> startHour, endHour |-> endHour]

\* Monday, Wednesday, Thursday 08:00-10:00 (Tuesday and the weekend closed)
ShiftsA == <<Shift(1, 8, 10), Shift(3, 8, 10), Shift(4, 8, 10)>>

\* Monday to Wednesday 09:00-10:00
ShiftsB == <<Shift(1, 9, 10), Shift(2, 9, 10), Shift(3, 9, 10)>>

WorkCenter(id, shifts, windows) ==
    [docId |-> id, shifts |-> shifts, maintenanceWindows |-> windows]

Window(from, to) == [startDate |-> ToISO(from), endDate |-> ToISO(to)]

PlainCenters == <<WorkCenter(1, ShiftsA, <<>>), WorkCenter(2, ShiftsB, <<>>)>>

\* work center 1 is under maintenance on Monday 08:00-09:00
MaintainedCenters ==
    <<WorkCenter(1, ShiftsA, <<Window(At(1, 8), At(1, 9))>>), WorkCenter(2, ShiftsB, <<>>)>>

\* work center 2 is not in the list
MissingCenter == <<WorkCenter(1, ShiftsA, <<>>)>>

\* work center 2 has no shifts
ShiftlessCenter == <<WorkCenter(1, ShiftsA, <<>>), WorkCenter(2, <<>>, <<>>)>>

\* Monday 07:00 (before every shift) to Monday LastStartHour:00 (after every shift)
StartInstants == {At(1, h) : h \in 7..LastStartHour}

Durations == {k * MinutesPerHour : k \in 0..MaxDurationHours}

\* the fields of a work order other than its id and its parents; the input end
\* is start + duration (wall clock) or start + one hour, whatever the duration
RichShapes ==
    [workCenterId : {1, 2}, start : StartInstants, durationMinutes : Durations,
     endAfter : {"duration", "hour"}, fmt : {"ms"}, isMaintenance : {FALSE}]

PlainShapes ==
    [workCenterId : {1, 2}, start : {At(1, 8), At(1, 9)},
     durationMinutes : {MinutesPerHour}, endAfter : {"duration"},
     fmt : {"ms", "z"}, isMaintenance : BOOLEAN]

TinyShapes ==
    [workCenterId : {1, 2}, start : {At(1, 8), At(1, 9)},
     durationMinutes : {MinutesPerHour}, endAfter : {"duration"},
     fmt : {"ms"}, isMaintenance : BOOLEAN]

\* orders on work center 1 from Monday 07:00 whose input end lies later than
\* any end that their duration gives
StaleShapes ==
    [workCenterId : {1}, start : {At(1, 7)}, durationMinutes : {0, MinutesPerHour},
     endAfter : {"long"}, fmt : {"ms"}, isMaintenance : {FALSE}]

\* the workOrderNumber of the order with docId id: 'WO-1' for 'wo-1', a
\* value that is no docId
WorkOrderNumber(id) == NumberBase + id

WorkOrder(id, shape, deps) ==
    [docId |-> id, workOrderNumber |-> WorkOrderNumber(id),
     workCenterId |-> shape.workCenterId,
     startDate |-> [t |-> shape.start, fmt |-> shape.fmt],
     endDate |-> [t |-> shape.start
                          + (CASE shape.endAfter = "duration" -> shape.durationMinutes
                               [] shape.endAfter = "hour" -> MinutesPerHour
                               [] shape.endAfter = "long" ->
                                      (MaxDurationHours + 1) * MinutesPerHour),
                  fmt |-> shape.fmt],
     durationMinutes |-> shape.durationMinutes,
     isMaintenance |-> shape.isMaintenance,
     dependsOnWorkOrderIds |-> deps]

\* a manufacturing order; reflow reads none of its fields
ManufacturingOrder(id) == [docId |-> id]

\* dependency lists, one per work order: independent, a parent listed before
\* or after its child
PairGraphs == {<<<<>>, <<>>>>, <<<<>>, <<1>>>>, <<<<2>>, <<>>>>}

\* a cycle, a self-edge, a dangling parent id, a duplicated parent id, a
\* cycle next to a dangling parent id
OddPairGraphs ==
    {<<<<2>>, <<1>>>>, <<<<1>>, <<>>>>, <<<<>>, <<9>>>>, <<<<>>, <<1, 1>>>>,
     <<<<2>>, <<1, 9>>>>}

\* over n work orders: a chain, a chain against input order, the last order
\* depending on all the others (a diamond's join), all depending on the first
LongGraphs(n) ==
    {[i \in 1..n |-> IF i = 1 THEN <<>> ELSE <<i - 1>>],
     [i \in 1..n |-> IF i = n THEN <<>> ELSE <<i + 1>>],
     [i \in 1..n |-> IF i = n THEN [k \in 1..(n - 1) |-> k] ELSE <<>>],
     [i \in 1..n |-> IF i = 1 THEN <<>> ELSE <<1>>]}

\* over n work orders: a ring through all of them, a cycle of the last two
\* beside independent orders, a self-edge at the last order, and (acyclic)
\* every order depending on all the later ones
KnottedGraphs(n) ==
    {[i \in 1..n |-> <<(i % n) + 1>>],
     [i \in 1..n |-> IF i = n THEN <<n - 1>> ELSE IF i = n - 1 THEN <<n>> ELSE <<>>],
     [i \in 1..n |-> IF i = n THEN <<n>> ELSE <<>>],
     [i \in 1..n |-> [k \in 1..(n - i) |-> i + k]]}

\* over n work orders: a chain in which every order lists its parent twice and
\* the last order lists the first order before and after its parent
TwiceListedGraphs(n) ==
    {[i \in 1..n |-> IF i = 1 THEN <<>>
                     ELSE IF i = n THEN <<1, i - 1, 1>> ELSE <<i - 1, i - 1>>]}

\* one movable order shape: work center 1, Monday 08:00, one hour
LoneShapes ==
    {s \in TinyShapes : s.workCenterId = 1 /\ s.start = At(1, 8) /\ ~s.isMaintenance}

\* the families of inputs: how many work orders, which shapes, which
\* dependency graphs, which work center lists
Families ==
    {[n |-> 0, shapes |-> TinyShapes, graphs |-> {<<>>},
      centers |-> {PlainCenters, MaintainedCenters, MissingCenter, ShiftlessCenter, <<>>},
      manufacturing |-> {<<>>, <<ManufacturingOrder(1)>>,
                         <<ManufacturingOrder(1), ManufacturingOrder(2)>>}],
     [n |-> 1, shapes |-> RichShapes \cup PlainShapes, graphs |-> {<<<<>>>>},
      centers |-> {PlainCenters, MaintainedCenters}, manufacturing |-> {<<>>}],
     [n |-> 2, shapes |-> RichShapes, graphs |-> PairGraphs,
      centers |-> {PlainCenters, MaintainedCenters}, manufacturing |-> {<<>>}],
     [n |-> 2, shapes |-> PlainShapes, graphs |-> PairGraphs \cup OddPairGraphs,
      centers |-> {PlainCenters, MaintainedCenters, MissingCenter, ShiftlessCenter}, manufacturing |-> {<<>>}],
     [n |-> MaxWorkOrders, shapes |-> TinyShapes,
      graphs |-> LongGraphs(MaxWorkOrders) \cup TwiceListedGraphs(MaxWorkOrders),
      centers |-> {PlainCenters}, manufacturing |-> {<<>>}],
     [n |-> MaxWorkOrders, shapes |-> LoneShapes, graphs |-> KnottedGraphs(MaxWorkOrders),
      centers |-> {PlainCenters}, manufacturing |-> {<<>>}],
     [n |-> 2, shapes |-> StaleShapes \cup LoneShapes, graphs |-> PairGraphs,
      centers |-> {PlainCenters}, manufacturing |-> {<<>>}]}

IsInput(in) ==
    \E fam \in Families : \E f \in [1..fam.n -> fam.shapes] :
        \E g \in fam.graphs : \E c \in fam.centers : \E m \in fam.manufacturing :
            in = [workOrders |-> [i \in 1..fam.n |-> WorkOrder(i, f[i], g[i])],
                  workCenters |-> c, manufacturingOrders |-> m]

\* ------------------------------------------------------------------- state
\* no utility function is being called on its own
NoProbe == [fn |-> "none"]

\* reflow has not returned
NoResult == [returned |-> FALSE]

VARIABLES input, updatedWorkOrders, changes, sortedWorkOrders, cursor, pc, error, errorNames,
          errorMessages, call, probe, result

vars == <<input, updatedWorkOrders, changes, sortedWorkOrders, cursor, pc, error, errorNames,
         errorMessages, call, probe, result>>

\* reflow is entered: working copies are made, nothing is sorted yet
Init ==
    /\ IsInput(input)
    /\ updatedWorkOrders = input.workOrders
    /\ changes = <<>>
    /\ sortedWorkOrders = <<>>
    /\ cursor = 0
    /\ pc = "sort"
    /\ error = "none"
    /\ errorNames = <<>>
    /\ errorMessages = <<>>
    /\ call = "first"
    /\ probe = NoProbe
    /\ result = NoResult

\* the loop iterating over the working copies in input order instead of the
\* sorted order
Current_InputOrder == updatedWorkOrders[cursor]

\* the work order the loop is at
Current == updatedWorkOrders[IndexOf(updatedWorkOrders, sortedWorkOrders[cursor])]

InLoop == pc = "loop" /\ cursor <= Len(sortedWorkOrders)

\* the sort handing back its order as the list of working copies, so that
\* the result lists the work orders in topological order
TopologicalSortReturns_ReordersCopies ==
    /\ pc = "sort"
    /\ \E sorted \in {topologicalSort(updatedWorkOrders)} :
           /\ sorted.ok
           /\ sortedWorkOrders' = sorted.order
           /\ updatedWorkOrders' =
                  [k \in 1..Len(sorted.order) |->
                      updatedWorkOrders[IndexOf(updatedWorkOrders, sorted.order[k])]]
    /\ cursor' = 1
    /\ pc' = "loop"
    /\ UNCHANGED <<input, changes, error, errorNames, errorMessages, call, probe, result>>

TopologicalSortReturns ==
    /\ pc = "sort"
    /\ \E sorted \in {topologicalSort(updatedWorkOrders)} :
           /\ sorted.ok
           /\ sortedWorkOrders' = sorted.order
    /\ cursor' = 1
    /\ pc' = "loop"
    /\ UNCHANGED <<input, updatedWorkOrders, changes, error, errorNames, errorMessages, call, probe, result>>

TopologicalSortThrows ==
    /\ pc = "sort"
    /\ \E sorted \in {topologicalSort(updatedWorkOrders)} :
           /\ ~sorted.ok
           /\ error' = sorted.err
           /\ errorNames' = sorted.names
           /\ errorMessages' = <<>>
    /\ pc' = "failed"
    /\ UNCHANGED <<input, updatedWorkOrders, changes, sortedWorkOrders, cursor, call, probe, result>>

\* the loop without its maintenance test
IsSkipped_Never(workOrder) == FALSE

\* if (workOrder.data.isMaintenance) continue
IsSkipped(workOrder) == workOrder.isMaintenance

SkipMaintenance ==
    /\ InLoop
    /\ IsSkipped(Current)
    /\ cursor' = cursor + 1
    /\ UNCHANGED <<input, updatedWorkOrders, changes, sortedWorkOrders, pc, error, errorNames, errorMessages, call, probe, result>>

EarliestStart == calculateEarliestStartTime(Current, updatedWorkOrders, input.workCenters)

\* the branch not taken, with the end date recomputed all the same
KeepWorkOrder_RecomputesEnd ==
    /\ InLoop
    /\ ~IsSkipped(Current)
    /\ \E earliestStart \in {EarliestStart} :
           /\ earliestStart.ok
           /\ earliestStart.date = Current.startDate
           /\ \E newEndDate \in {calculateEndDateWithShifts(earliestStart.date,
                                      Current.durationMinutes,
                                      WorkCenterGet(input.workCenters,
                                                    Current.workCenterId).shifts)} :
                  /\ newEndDate.ok
                  /\ updatedWorkOrders' =
                         [updatedWorkOrders EXCEPT
                             ![IndexOf(updatedWorkOrders, Current.docId)].endDate =
                                 newEndDate.date]
    /\ cursor' = cursor + 1
    /\ UNCHANGED <<input, changes, sortedWorkOrders, pc, error, errorNames, errorMessages, call, probe, result>>

KeepWorkOrder ==
    /\ InLoop
    /\ ~IsSkipped(Current)
    /\ \E earliestStart \in {EarliestStart} :
           /\ earliestStart.ok
           /\ earliestStart.date = Current.startDate
    /\ cursor' = cursor + 1
    /\ UNCHANGED <<input, updatedWorkOrders, changes, sortedWorkOrders, pc, error, errorNames, errorMessages, call, probe, result>>

\* workOrders.map(wo => ({ ...wo, data: { ...wo.data } })) without the inner
\* spread: the working copies would share their data objects with the input
CopiesData_OuterSpreadOnly == FALSE

\* workOrders.map(wo => ({ ...wo, data: { ...wo.data } })): every working copy
\* has a data object of its own, so a write to it does not reach the input
CopiesData == TRUE

\* the reschedule branch: the new end date, the change record, the update
Reschedule(workOrder, newStartDate, newEndDate) ==
    LET moved == [workOrder EXCEPT !.startDate = newStartDate, !.endDate = newEndDate]
        rescheduled == [updatedWorkOrders EXCEPT
                           ![IndexOf(updatedWorkOrders, workOrder.docId)] = moved]
    IN /\ updatedWorkOrders' = rescheduled
       /\ input' = IF CopiesData THEN input
                   ELSE [input EXCEPT !.workOrders = rescheduled]
       /\ changes' = Append(changes,
              [workOrderId |-> workOrder.docId,
               originalStartDate |-> workOrder.startDate,
               originalEndDate |-> workOrder.endDate,
               newStartDate |-> newStartDate,
               newEndDate |-> newEndDate,
               delayMinutes |-> calculateDelayMinutes(workOrder.endDate, newEndDate),
               reason |-> generateChangeReason(moved, rescheduled, input.workCenters)])

RescheduleWorkOrder ==
    /\ InLoop
    /\ ~IsSkipped(Current)
    /\ \E earliestStart \in {EarliestStart} :
           /\ earliestStart.ok
           /\ earliestStart.date # Current.startDate
           /\ \E newEndDate \in {calculateEndDateWithShifts(earliestStart.date,
                                      Current.durationMinutes,
                                      WorkCenterGet(input.workCenters,
                                                    Current.workCenterId).shifts)} :
                  IF ~newEndDate.ok
                  THEN /\ error' = newEndDate.err
                       /\ errorNames' = <<>>
                       /\ errorMessages' = <<>>
                       /\ pc' = "failed"
                       /\ UNCHANGED <<input, updatedWorkOrders, changes, cursor>>
                  ELSE /\ Reschedule(Current, earliestStart.date, newEndDate.date)
                       /\ cursor' = cursor + 1
                       /\ UNCHANGED <<pc, error, errorNames, errorMessages>>
    /\ UNCHANGED <<sortedWorkOrders, call, probe, result>>

EarliestStartThrows ==
    /\ InLoop
    /\ ~IsSkipped(Current)
    /\ \E earliestStart \in {EarliestStart} :
           /\ ~earliestStart.ok
           /\ error' = earliestStart.err
           /\ errorNames' = <<>>
           /\ errorMessages' = <<>>
    /\ pc' = "failed"
    /\ UNCHANGED <<input, updatedWorkOrders, changes, sortedWorkOrders, cursor, call, probe, result>>

\* the loop left one position too late
LoopDone_OneTooFar == pc = "loop" /\ cursor > Len(sortedWorkOrders) + 1

\* the for-of loop has run through sortedWorkOrders
LoopDone == pc = "loop" /\ cursor > Len(sortedWorkOrders)

ValidationPasses ==
    /\ LoopDone
    /\ \E validation \in {validateAll(updatedWorkOrders, input.workCenters)} :
           validation.ok /\ Len(validation.errors) = 0
    /\ pc' = "done"
    /\ result' = [returned |-> TRUE,
                  explanation |-> generateExplanation(changes),
                  metrics |-> calculateMetrics(changes, updatedWorkOrders,
                                               input.workCenters)]
    /\ UNCHANGED <<input, updatedWorkOrders, changes, sortedWorkOrders, cursor, error,
                   errorNames, errorMessages, call, probe>>

ValidationFails ==
    /\ LoopDone
    /\ \E validation \in {validateAll(updatedWorkOrders, input.workCenters)} :
           /\ ~validation.ok \/ Len(validation.errors) > 0
           /\ errorMessages' = InvalidScheduleMessage(validation.errors)
    /\ error' = "INVALID_SCHEDULE"
    /\ errorNames' = <<>>
    /\ pc' = "failed"
    /\ UNCHANGED <<input, updatedWorkOrders, changes, sortedWorkOrders, cursor, call, probe, result>>

\* the caller feeds the result back: reflow(updatedWorkOrders, same work centers)
ReflowAgain ==
    /\ pc = "done"
    /\ call = "first"
    /\ input' = [input EXCEPT !.workOrders = updatedWorkOrders]
    /\ changes' = <<>>
    /\ sortedWorkOrders' = <<>>
    /\ cursor' = 0
    /\ pc' = "sort"
    /\ call' = "second"
    /\ result' = NoResult
    /\ UNCHANGED <<updatedWorkOrders, error, errorNames, errorMessages, probe>>

Next ==
    \/ TopologicalSortReturns
    \/ TopologicalSortThrows
    \/ SkipMaintenance
    \/ KeepWorkOrder
    \/ RescheduleWorkOrder
    \/ EarliestStartThrows
    \/ ValidationPasses
    \/ ValidationFails
    \/ ReflowAgain

Spec == Init /\ [][Next]_vars

\* ------------------------------------------------------------- properties
Succeeded == pc = "done"

Positions == 1..Len(updatedWorkOrders)

InputOrder(i) == input.workOrders[i]

Placed(i) == updatedWorkOrders[i]

CenterOf(wo) ==
    {input.workCenters[k] : k \in {j \in 1..Len(input.workCenters) :
                                      input.workCenters[j].docId = wo.workCenterId}}

\* t is inside a weekly shift window (day 0 is a Sunday)
InsideShift(t, shifts) ==
    \E k \in 1..Len(shifts) :
        /\ shifts[k].dayOfWeek = (t \div MinutesPerDay) % 7
        /\ shifts[k].startHour * MinutesPerHour <= t % MinutesPerDay
        /\ t % MinutesPerDay < shifts[k].endHour * MinutesPerHour

\* t is inside a shift window or is the closing instant of one
InsideOrClosingShift(t, shifts) ==
    \E k \in 1..Len(shifts) :
        /\ shifts[k].dayOfWeek = (t \div MinutesPerDay) % 7
        /\ shifts[k].startHour * MinutesPerHour < t % MinutesPerDay
        /\ t % MinutesPerDay <= shifts[k].endHour * MinutesPerHour

Minimum(a, b) == IF a < b THEN a ELSE b
Maximum(a, b) == IF a > b THEN a ELSE b

\* minutes of [from, to) that fall on day number day inside a shift
ShiftMinutesOnDay(from, to, day, shifts) ==
    LET todays == {k \in 1..Len(shifts) : shifts[k].dayOfWeek = day % 7}
        k == CHOOSE k \in todays : TRUE
        opens == day * MinutesPerDay + shifts[k].startHour * MinutesPerHour
        closes == day * MinutesPerDay + shifts[k].endHour * MinutesPerHour
    IN IF todays = {} THEN 0
       ELSE Maximum(0, Minimum(to, closes) - Maximum(from, opens))

RECURSIVE ShiftMinutesFrom(_, _, _, _)
ShiftMinutesFrom(from, to, day, shifts) ==
    IF day * MinutesPerDay >= to THEN 0
    ELSE ShiftMinutesOnDay(from, to, day, shifts)
         + ShiftMinutesFrom(from, to, day + 1, shifts)

\* the in-shift time contained in [from, to)
InShiftMinutes(from, to, shifts) ==
    ShiftMinutesFrom(from, to, from \div MinutesPerDay, shifts)

HalfOpenOverlap(a0, a1, b0, b1) == a0 < b1 /\ a1 > b0

InputOverlap(i, j) ==
    HalfOpenOverlap(InputOrder(i).startDate.t, InputOrder(i).endDate.t,
                    InputOrder(j).startDate.t, InputOrder(j).endDate.t)

Rescheduled(i) == \E k \in 1..Len(changes) : changes[k].workOrderId = Placed(i).docId

CapErrors == {"SHIFT_CALC_CAP", "NEXT_SHIFT_CAP", "SLOT_CAP"}

\* no maintenance work order, an acyclic graph without dangling parents, every
\* work order on an existing work center that has a shift
WellFormedInput ==
    /\ \A i \in 1..Len(input.workOrders) :
          /\ ~InputOrder(i).isMaintenance
          /\ \E c \in CenterOf(InputOrder(i)) : Len(c.shifts) > 0
          /\ \A k \in 1..Len(InputOrder(i).dependsOnWorkOrderIds) :
                \E j \in 1..Len(input.workOrders) :
                    InputOrder(j).docId = InputOrder(i).dependsOnWorkOrderIds[k]
    /\ ~detectCycles(buildDependencyGraph(input.workOrders)).found

\* C1: a well-formed input (no maintenance orders, acyclic, no dangling parent,
\* every order on a work center with a shift) never makes reflow fail, except
\* by an iteration cap
C1_WellFormedInputReturns ==
    (WellFormedInput /\ pc = "failed") => error \in CapErrors

\* C2: after a successful reflow every parent ends no later than its child starts
C2_ParentsEndBeforeChildStarts ==
    Succeeded =>
        \A i \in Positions : \A k \in 1..Len(Placed(i).dependsOnWorkOrderIds) :
            \A j \in Positions :
                Placed(j).docId = Placed(i).dependsOnWorkOrderIds[k]
                    => Placed(j).endDate.t <= Placed(i).startDate.t

C2_Witness ==
    /\ Succeeded
    /\ \E i \in Positions : \E j \in Positions :
          /\ Placed(i).dependsOnWorkOrderIds = <<Placed(j).docId>>
          /\ Rescheduled(i)
          /\ InputOrder(i).startDate.t < Placed(j).endDate.t
          /\ Placed(i).startDate.t = Placed(j).endDate.t

\* C3: after a successful reflow no two work orders of one work center overlap
C3_NoOverlapOnWorkCenter ==
    Succeeded =>
        \A i \in Positions : \A j \in Positions :
            (i # j /\ Placed(i).workCenterId = Placed(j).workCenterId)
                => ~HalfOpenOverlap(Placed(i).startDate.t, Placed(i).endDate.t,
                                    Placed(j).startDate.t, Placed(j).endDate.t)

C3_Witness ==
    /\ Succeeded
    /\ call = "first"
    /\ \E i \in Positions : \E j \in Positions :
          /\ i # j
          /\ Placed(i).workCenterId = Placed(j).workCenterId
          /\ InputOverlap(i, j)
          /\ Rescheduled(i)

\* C4: after a successful reflow every start is inside a shift of the order's
\* work center and no order overlaps a maintenance window of its work center
C4_StartInShiftAndClearOfMaintenance ==
    Succeeded =>
        \A i \in Positions :
            /\ CenterOf(Placed(i)) # {}
            /\ \A c \in CenterOf(Placed(i)) :
                  /\ InsideShift(Placed(i).startDate.t, c.shifts)
                  /\ \A m \in 1..Len(c.maintenanceWindows) :
                        ~HalfOpenOverlap(Placed(i).startDate.t, Placed(i).endDate.t,
                                         c.maintenanceWindows[m].startDate.t,
                                         c.maintenanceWindows[m].endDate.t)

C4_Witness ==
    /\ Succeeded
    /\ call = "first"
    /\ \E i \in Positions : \E c \in CenterOf(Placed(i)) :
          /\ Len(c.maintenanceWindows) > 0
          /\ HalfOpenOverlap(InputOrder(i).startDate.t, InputOrder(i).endDate.t,
                             c.maintenanceWindows[1].startDate.t,
                             c.maintenanceWindows[1].endDate.t)
          /\ Rescheduled(i)
    /\ \E i \in Positions : \E c \in CenterOf(Placed(i)) :
          ~InsideShift(InputOrder(i).startDate.t, c.shifts)

\* C5: after a successful reflow the in-shift time inside [start, end) of every
\* non-maintenance work order equals its duration, also for an order whose
\* start was kept and whose input end did not match the duration
C5_WorkingTimeEqualsDuration ==
    Succeeded =>
        \A i \in Positions : \A c \in CenterOf(Placed(i)) :
            ~Placed(i).isMaintenance
                => InShiftMinutes(Placed(i).startDate.t, Placed(i).endDate.t, c.shifts)
                       = Placed(i).durationMinutes

\* C6 as stated: after a successful reflow no instant of [start, end) lies
\* outside the shift windows of the work center
C6_NoInstantOutsideShift ==
    Succeeded =>
        \A i \in Positions : \A c \in CenterOf(Placed(i)) :
            InShiftMinutes(Placed(i).startDate.t, Placed(i).endDate.t, c.shifts)
                = Placed(i).endDate.t - Placed(i).startDate.t

\* C6 amended: after a successful reflow every start is inside a shift window,
\* and the interval of every work order that the call rescheduled pauses
\* outside shifts: its end is inside a shift window or at the closing instant
\* of one (or equals the start when the duration is 0), and the in-shift time
\* it contains is the duration
C6_IntervalPausesOutsideShift ==
    Succeeded =>
        \A i \in Positions : \A c \in CenterOf(Placed(i)) :
            /\ InsideShift(Placed(i).startDate.t, c.shifts)
            /\ Rescheduled(i) =>
                  /\ \/ InsideOrClosingShift(Placed(i).endDate.t, c.shifts)
                     \/ /\ Placed(i).durationMinutes = 0
                        /\ Placed(i).endDate.t = Placed(i).startDate.t
                  /\ InShiftMinutes(Placed(i).startDate.t, Placed(i).endDate.t, c.shifts)
                         = Placed(i).durationMinutes

\* a rescheduled order whose interval runs over a closed period
C6_Witness ==
    /\ Succeeded
    /\ \E i \in Positions :
          /\ Rescheduled(i)
          /\ Placed(i).durationMinutes > 0
          /\ Placed(i).endDate.t - Placed(i).startDate.t > Placed(i).durationMinutes

\* C7: a maintenance work order keeps its input start and end and never
\* appears in changes, at every point of the call
C7_MaintenanceUntouched ==
    \A i \in Positions :
        InputOrder(i).isMaintenance =>
            /\ Placed(i).startDate = InputOrder(i).startDate
            /\ Placed(i).endDate = InputOrder(i).endDate
            /\ ~Rescheduled(i)

\* a maintenance order that sits where another order wanted to be, which moved
C7_Witness ==
    /\ Succeeded
    /\ call = "first"
    /\ \E i \in Positions : \E j \in Positions :
          /\ InputOrder(i).isMaintenance
          /\ ~InputOrder(j).isMaintenance
          /\ InputOrder(i).workCenterId = InputOrder(j).workCenterId
          /\ InputOverlap(i, j)
          /\ Rescheduled(j)

\* C8: a second reflow of a successful result succeeds, records no change and
\* leaves every work order as it was
C8_SecondReflowChangesNothing ==
    call = "second" =>
        /\ pc # "failed"
        /\ pc = "done" => (changes = <<>> /\ updatedWorkOrders = input.workOrders)

PositionInSorted(id) ==
    CHOOSE k \in 1..Len(sortedWorkOrders) : sortedWorkOrders[k] = id

\* two independent movable orders alone on a work center without maintenance
\* windows, both starting inside a shift with ends that match their durations,
\* whose input intervals overlap; i is processed before j
Contend(i, j) ==
    /\ i # j
    /\ InputOrder(i).workCenterId = InputOrder(j).workCenterId
    /\ InputOrder(i).dependsOnWorkOrderIds = <<>>
    /\ InputOrder(j).dependsOnWorkOrderIds = <<>>
    /\ ~InputOrder(i).isMaintenance
    /\ ~InputOrder(j).isMaintenance
    /\ InputOverlap(i, j)
    /\ \A k \in Positions :
          InputOrder(k).workCenterId = InputOrder(i).workCenterId => k \in {i, j}
    /\ \A k \in {i, j} : \A c \in CenterOf(InputOrder(k)) :
          /\ c.maintenanceWindows = <<>>
          /\ InsideShift(InputOrder(k).startDate.t, c.shifts)
          /\ InsideOrClosingShift(InputOrder(k).endDate.t, c.shifts)
          /\ InShiftMinutes(InputOrder(k).startDate.t, InputOrder(k).endDate.t, c.shifts)
                 = InputOrder(k).durationMinutes
    /\ PositionInSorted(InputOrder(i).docId) < PositionInSorted(InputOrder(j).docId)

\* C9: of two independent orders that overlap on one work center, the one
\* processed first keeps its start and the one processed later is pushed
C9_FirstProcessedKeepsItsSlot ==
    (Succeeded /\ call = "first") =>
        \A i \in Positions : \A j \in Positions :
            Contend(i, j) =>
                /\ Placed(i).startDate = InputOrder(i).startDate
                /\ Placed(j).startDate.t > InputOrder(j).startDate.t

HalfHour == MinutesPerHour \div 2

\* the later of the order's start and the ends of its parents as placed in all
DependencyFloorInstant(wo, all) ==
    LET ends == {all[j].endDate.t : j \in {k \in 1..Len(all) :
                    \E d \in 1..Len(wo.dependsOnWorkOrderIds) :
                        all[k].docId = wo.dependsOnWorkOrderIds[d]}}
        floors == ends \cup {wo.startDate.t}
    IN CHOOSE m \in floors : \A x \in floors : x <= m

\* t is inside a shift and [t, end_after_working(t, duration)) overlaps no
\* other order placed on the work center and no maintenance window
FreeSlotAt(t, wo, all, c) ==
    LET end == calculateEndDateWithShifts(ToISO(t), wo.durationMinutes, c.shifts).date.t
    IN /\ InsideShift(t, c.shifts)
       /\ \A k \in 1..Len(all) :
             (all[k].docId # wo.docId /\ all[k].workCenterId = wo.workCenterId)
                 => ~HalfOpenOverlap(t, end, all[k].startDate.t, all[k].endDate.t)
       /\ \A m \in 1..Len(c.maintenanceWindows) :
             ~HalfOpenOverlap(t, end, c.maintenanceWindows[m].startDate.t,
                              c.maintenanceWindows[m].endDate.t)

\* the half-hour marks from floor up to, not including, chosen
EarlierInstants(floor, chosen) ==
    {floor + k * HalfHour : k \in 0..((chosen - floor) \div HalfHour)} \ {chosen}

C11_StartsAtDependencyFloor ==
    [][(InLoop /\ ~Current.isMaintenance /\ Current.dependsOnWorkOrderIds # <<>>
           /\ cursor' = cursor + 1) =>
          LET wo == Current
              i == IndexOf(updatedWorkOrders, wo.docId)
              floor == DependencyFloorInstant(wo, updatedWorkOrders)
          IN \A c \in CenterOf(wo) :
                FreeSlotAt(floor, wo, updatedWorkOrders, c)
                    => updatedWorkOrders'[i].startDate.t = floor]_vars

\* a delay that cascades: an order with two parents, one of them moved by this
\* call, starts at the later of the parents' new ends, after its own input start
C11_Witness ==
    /\ Succeeded
    /\ call = "first"
    /\ \E i \in Positions : \E j \in Positions :
          /\ Len(Placed(i).dependsOnWorkOrderIds) = 2
          /\ \E d \in 1..2 : Placed(i).dependsOnWorkOrderIds[d] = Placed(j).docId
          /\ Rescheduled(j)
          /\ Rescheduled(i)
          /\ Placed(j).endDate.t > InputOrder(j).endDate.t
          /\ Placed(i).startDate.t = Placed(j).endDate.t
          /\ Placed(i).startDate.t
                 = DependencyFloorInstant(InputOrder(i), updatedWorkOrders)
          /\ Placed(i).startDate.t > InputOrder(i).startDate.t

ParentIds(wo) == {wo.dependsOnWorkOrderIds[k] : k \in 1..Len(wo.dependsOnWorkOrderIds)}

\* ids, their parents, their parents' parents, ... up to k generations
RECURSIVE Ancestry(_, _, _)
Ancestry(workOrders, ids, k) ==
    IF k = 0 THEN ids
    ELSE Ancestry(workOrders,
                  ids \cup UNION {ParentIds(workOrders[i]) :
                                     i \in {j \in 1..Len(workOrders) :
                                               workOrders[j].docId \in ids}},
                  k - 1)

\* some work order is its own ancestor
DependsOnCycle(workOrders) ==
    \E i \in 1..Len(workOrders) :
        workOrders[i].docId
            \in Ancestry(workOrders, ParentIds(workOrders[i]), Len(workOrders))

\* some listed parent id is the docId of no work order
DanglingParent(workOrders) ==
    \E i \in 1..Len(workOrders) :
        ParentIds(workOrders[i]) \ DocIds(workOrders) # {}

\* reflow has failed with no date modified and no change recorded
FailedUntouched ==
    /\ pc = "failed"
    /\ changes = <<>>
    /\ updatedWorkOrders = input.workOrders

\* C12 as stated: an input whose dependencies contain a cycle makes reflow fail
\* with the circular-dependency error before any date is modified or any
\* change recorded
C12_CycleFailsAsCircular ==
    (DependsOnCycle(input.workOrders) /\ pc # "sort") =>
        (FailedUntouched /\ error = "CIRCULAR_DEPENDENCY")

\* C12 amended: an input whose dependencies contain a cycle makes reflow fail
\* before any date is modified or any change recorded; the error is the
\* circular-dependency error when no parent id is dangling, and the
\* dangling-dependency error otherwise
C12_CycleFailsBeforeAnyChange ==
    (DependsOnCycle(input.workOrders) /\ pc # "sort") =>
        /\ FailedUntouched
        /\ error = IF DanglingParent(input.workOrders)
                   THEN "DANGLING_DEPENDENCY" ELSE "CIRCULAR_DEPENDENCY"

\* two orders that depend on each other, rejected as circular
C12_Witness ==
    /\ FailedUntouched
    /\ error = "CIRCULAR_DEPENDENCY"
    /\ \E i \in Positions : \E j \in Positions :
          /\ i # j
          /\ InputOrder(j).docId \in ParentIds(InputOrder(i))
          /\ InputOrder(i).docId \in ParentIds(InputOrder(j))

\* C13: an input in which some listed parent id is no work order's docId makes
\* buildDependencyGraph, and with it reflow, fail with an error that names a
\* missing parent id, before any scheduling step has run
C13_DanglingParentFailsNamingIt ==
    (DanglingParent(input.workOrders) /\ pc # "sort") =>
        /\ ~buildDependencyGraph(input.workOrders).ok
        /\ FailedUntouched
        /\ sortedWorkOrders = <<>>
        /\ cursor = 0
        /\ error = "DANGLING_DEPENDENCY"
        /\ Len(errorNames) = 1
        /\ errorNames[1] \notin DocIds(input.workOrders)
        /\ \E i \in Positions : errorNames[1] \in ParentIds(InputOrder(i))

\* an order whose only parent id belongs to no order, rejected with that id
C13_Witness ==
    /\ FailedUntouched
    /\ error = "DANGLING_DEPENDENCY"
    /\ \E i \in Positions :
          /\ Len(InputOrder(i).dependsOnWorkOrderIds) = 1
          /\ errorNames = InputOrder(i).dependsOnWorkOrderIds
          /\ errorNames[1] \notin DocIds(input.workOrders)

SortedPositions(id) == {k \in 1..Len(sortedWorkOrders) : sortedWorkOrders[k] = id}

\* C15: for an acyclic input without dangling parents topologicalSort returns
\* a sequence that holds every input work order exactly once and every work
\* order after all of its parents
C15_SortedAfterParents ==
    (pc # "sort" /\ ~DependsOnCycle(input.workOrders)
         /\ ~DanglingParent(input.workOrders)) =>
        /\ Len(sortedWorkOrders) = Len(input.workOrders)
        /\ \A i \in Positions :
              /\ Cardinality(SortedPositions(InputOrder(i).docId)) = 1
              /\ \A p \in ParentIds(InputOrder(i)) :
                    \A kp \in SortedPositions(p) :
                        \A ki \in SortedPositions(InputOrder(i).docId) : kp < ki

\* a chain given children first, sorted into the reverse of the input order
C15_Witness ==
    /\ pc # "sort"
    /\ Len(sortedWorkOrders) > 2
    /\ \A k \in 1..Len(sortedWorkOrders) :
          /\ sortedWorkOrders[k] = InputOrder(Len(sortedWorkOrders) + 1 - k).docId
          /\ k > 1 => InputOrder(Len(sortedWorkOrders) + 1 - k).dependsOnWorkOrderIds
                           = <<sortedWorkOrders[k - 1]>>

\* C16: on every graph that can be built, detectCycles reports a circular
\* dependency exactly when some work order is its own ancestor along parent
\* edges (a self-edge included), wherever in the graph the cycle lies
C16_DetectCyclesIffCycle ==
    LET graph == buildDependencyGraph(input.workOrders)
    IN graph.ok => (detectCycles(graph).found <=> DependsOnCycle(input.workOrders))

\* a cycle that the search started at the first order does not meet: the
\* first order has no parents and is no parent, two later orders form a cycle
C16_Witness ==
    /\ pc = "failed"
    /\ error = "CIRCULAR_DEPENDENCY"
    /\ Len(input.workOrders) > 2
    /\ InputOrder(1).dependsOnWorkOrderIds = <<>>
    /\ \A i \in Positions : InputOrder(1).docId \notin ParentIds(InputOrder(i))
    /\ DependsOnCycle(input.workOrders)
    /\ detectCycles(buildDependencyGraph(input.workOrders)).found


\* ---------------------------------------------------------- change records

ChangesFor(id) == {k \in 1..Len(changes) : changes[k].workOrderId = id}

\* C19: when reflow succeeds, changes holds exactly one entry for each work
\* order whose startDate in the output differs from its startDate in the
\* input and none for any other work order; an entry carries the input start
\* and end as original, the output start and end as new, and as delayMinutes
\* the signed number of minutes from the original end to the new end.
C19_ChangesRecordMovedOrders ==
    Succeeded =>
        /\ \A i \in Positions :
              Cardinality(ChangesFor(Placed(i).docId))
                  = IF Placed(i).startDate # InputOrder(i).startDate THEN 1 ELSE 0
        /\ \A k \in 1..Len(changes) :
              \E i \in Positions :
                  /\ changes[k].workOrderId = InputOrder(i).docId
                  /\ changes[k].originalStartDate = InputOrder(i).startDate
                  /\ changes[k].originalEndDate = InputOrder(i).endDate
                  /\ changes[k].newStartDate = Placed(i).startDate
                  /\ changes[k].newEndDate = Placed(i).endDate
                  /\ changes[k].delayMinutes
                         = Placed(i).endDate.t - InputOrder(i).endDate.t

\* a success with an order that ends earlier than in the input, one that ends
\* later, or one that kept its start
C19_Witness ==
    /\ Succeeded
    /\ \E k \in 1..Len(changes) : changes[k].delayMinutes < 0
    /\ \/ \E k \in 1..Len(changes) : changes[k].delayMinutes > 0
       \/ \E i \in Positions : ChangesFor(Placed(i).docId) = {}

\* C20: in every successful result metrics.workOrdersAffected is the number
\* of entries of changes and metrics.totalDelayMinutes is the sum over changes
\* of max(0, delayMinutes): it is never negative and a negative delay does
\* not reduce it.
C20_MetricsCountChangesAndSumPositiveDelays ==
    Succeeded =>
        /\ result.returned
        /\ result.metrics.workOrdersAffected = Len(changes)
        /\ result.metrics.totalDelayMinutes
               = SumFrom([k \in 1..Len(changes) |->
                             Maximum(0, changes[k].delayMinutes)], 1)
        /\ result.metrics.totalDelayMinutes >= 0
        /\ \A k \in 1..Len(changes) :
              changes[k].delayMinutes > 0
                  => result.metrics.totalDelayMinutes >= changes[k].delayMinutes

\* a success whose changes hold a negative and a positive delay, the total
\* being the positive one
C20_Witness ==
    /\ Succeeded
    /\ Len(changes) = 2
    /\ \E k, l \in 1..Len(changes) :
          /\ changes[k].delayMinutes < 0
          /\ changes[l].delayMinutes > 0
          /\ result.metrics.totalDelayMinutes = changes[l].delayMinutes
    /\ result.metrics.workOrdersAffected = 2

\* --------------------------------------------------------- final validation

\* the validation errors of the work orders as they stand
FinalErrors == validateAll(updatedWorkOrders, input.workCenters).errors

\* C21: reflow returns a result if and only if validateAll of the rescheduled
\* work orders returns an empty list; when the list is not empty the call
\* fails with one error whose message holds the message of every validation
\* error found, and no result is returned.
C21_ResultIffNoValidationError ==
    [][LoopDone =>
          \E errors \in {FinalErrors} :
              /\ pc' = "done" <=> Len(errors) = 0
              /\ pc' = "done" <=> result'.returned
              /\ Len(errors) > 0 =>
                    /\ pc' = "failed"
                    /\ error' = "INVALID_SCHEDULE"
                    /\ Len(errorMessages') = Len(errors)
                    /\ \A k \in 1..Len(errors) :
                          \E m \in 1..Len(errorMessages') :
                              errorMessages'[m] = errors[k].message]_vars

\* a call that failed in validation with two errors of different messages
C21_Witness ==
    /\ pc = "failed"
    /\ error = "INVALID_SCHEDULE"
    /\ ~result.returned
    /\ Len(errorMessages) >= 2
    /\ \E k, m \in 1..Len(errorMessages) : errorMessages[k] # errorMessages[m]
    /\ \A k \in 1..Len(FinalErrors) :
          \E m \in 1..Len(errorMessages) : errorMessages[m] = FinalErrors[k].message

\* ------------------------------------------- misplaced maintenance orders

\* the start of work order i is outside every shift of its work center
StartsOutsideShift(i) ==
    \E c \in CenterOf(Placed(i)) : ~InsideShift(Placed(i).startDate.t, c.shifts)

\* the interval of work order i overlaps a maintenance window of its work center
OverlapsWindow(i) ==
    \E c \in CenterOf(Placed(i)) : \E w \in 1..Len(c.maintenanceWindows) :
        HalfOpenOverlap(Placed(i).startDate.t, Placed(i).endDate.t,
                        c.maintenanceWindows[w].startDate.t,
                        c.maintenanceWindows[w].endDate.t)

\* the interval of work order i overlaps another maintenance work order of
\* its work center
OverlapsMaintenanceOrder(i) ==
    \E j \in Positions :
        /\ j # i
        /\ Placed(j).isMaintenance
        /\ Placed(j).workCenterId = Placed(i).workCenterId
        /\ HalfOpenOverlap(Placed(i).startDate.t, Placed(i).endDate.t,
                           Placed(j).startDate.t, Placed(j).endDate.t)

\* work order i starts before one of its parents ends
StartsBeforeParentEnds(i) ==
    \E j \in Positions :
        /\ Placed(j).docId \in ParentIds(Placed(i))
        /\ Placed(j).endDate.t > Placed(i).startDate.t

\* a maintenance work order whose placement violates a constraint
MisplacedMaintenance(i) ==
    /\ Placed(i).isMaintenance
    /\ \/ StartsOutsideShift(i)
       \/ OverlapsWindow(i)
       \/ OverlapsMaintenanceOrder(i)
       \/ StartsBeforeParentEnds(i)

\* C22 as stated: a call on an input with a misplaced maintenance work order
\* ends, when it ends, in a validation error
C22_MisplacedMaintenanceFailsValidation ==
    (pc \in {"done", "failed"} /\ \E i \in Positions : MisplacedMaintenance(i))
        => pc = "failed" /\ error = "INVALID_SCHEDULE"

\* C22 amended: a misplaced maintenance work order is never moved and no
\* schedule that holds one is returned; a call that gets as far as the final
\* validation fails there with a validation error, a call that another defect
\* of the input stops earlier fails with that defect's error
C22_MisplacedMaintenanceNeverReturned ==
    [][(\E i \in Positions : MisplacedMaintenance(i)) =>
          /\ pc' # "done"
          /\ LoopDone => /\ pc' = "failed"
                         /\ error' = "INVALID_SCHEDULE"
                         /\ Len(errorMessages') > 0
          /\ \A i \in Positions :
                Placed(i).isMaintenance => updatedWorkOrders'[i] = Placed(i)]_vars

\* a call that failed in validation over a maintenance work order outside
\* its shift while another work order had been moved
C22_Witness ==
    /\ pc = "failed"
    /\ error = "INVALID_SCHEDULE"
    /\ Len(changes) > 0
    /\ \E i \in Positions :
          /\ Placed(i).isMaintenance
          /\ StartsOutsideShift(i)
          /\ Placed(i) = InputOrder(i)

\* --------------------------------------------------------------- empty input

\* C24: reflow of an input without work orders succeeds, whatever the work
\* centers and the manufacturing orders are (empty lists included), and
\* returns no work order, no change and the explanation 'No changes needed -
\* schedule is valid'.
C24_EmptyInputSucceeds ==
    Len(input.workOrders) = 0 =>
        /\ pc # "failed"
        /\ updatedWorkOrders = <<>>
        /\ changes = <<>>
        /\ Succeeded =>
              /\ result.returned
              /\ result.explanation.text = "No changes needed - schedule is valid"

\* a returned result for no work order, no work center and two manufacturing
\* orders
C24_Witness ==
    /\ Succeeded
    /\ result.returned
    /\ input.workOrders = <<>>
    /\ input.workCenters = <<>>
    /\ Len(input.manufacturingOrders) = 2
    /\ result.explanation.text = "No changes needed - schedule is valid"

\* ------------------------------------------------------------- fatal errors
\* what a caller of reflow catches: every throw statement constructs
\* new Error(message), an object whose fields are its name and its message;
\* reading a property of the undefined work center throws a TypeError
Caught ==
    [name |-> IF error = "TYPE_ERROR" THEN "TypeError" ELSE "Error",
     message |-> [wording |-> error, quotes |-> errorNames, lines |-> errorMessages]]

\* the type tags a fatal error can carry
ErrorTypes ==
    {"CIRCULAR_DEPENDENCY", "DEPENDENCY_VIOLATION", "WORK_CENTER_CONFLICT",
     "SHIFT_VIOLATION", "MAINTENANCE_CONFLICT", "DANGLING_DEPENDENCY", "SAFETY_CAP"}

\* C26: every fatal outcome of reflow is an error that carries a type tag of
\* ErrorTypes matching its cause (the cycle, the dangling dependency, the
\* exceeded cap, one of the validation errors found) and the ids of the
\* involved work orders
C26_FatalErrorsAreStructured ==
    pc = "failed" =>
        /\ {"type", "workOrderIds"} \subseteq DOMAIN Caught
        /\ Caught.type \in ErrorTypes
        /\ error = "CIRCULAR_DEPENDENCY" => Caught.type = "CIRCULAR_DEPENDENCY"
        /\ error = "DANGLING_DEPENDENCY" => Caught.type = "DANGLING_DEPENDENCY"
        /\ error \in CapErrors => Caught.type = "SAFETY_CAP"
        /\ error = "INVALID_SCHEDULE" =>
              \E k \in 1..Len(FinalErrors) :
                  /\ Caught.type = FinalErrors[k].type
                  /\ Caught.workOrderIds = FinalErrors[k].workOrderIds
        /\ Caught.workOrderIds \subseteq DocIds(input.workOrders)

\* ---------------------------------------------------------- processing order
\* the ids of the work orders the loop has been through
Processed == {sortedWorkOrders[k] : k \in 1..(cursor - 1)}

\* the start or the end of the work order at position i is assigned in this step
Reassigned(i) ==
    \/ updatedWorkOrders'[i].startDate # updatedWorkOrders[i].startDate
    \/ updatedWorkOrders'[i].endDate # updatedWorkOrders[i].endDate

\* sortedWorkOrders holds every work order exactly once
SortedIsPermutation ==
    /\ Len(sortedWorkOrders) = Len(updatedWorkOrders)
    /\ \A i \in Positions :
          Cardinality({k \in 1..Len(sortedWorkOrders) :
                          sortedWorkOrders[k] = updatedWorkOrders[i].docId}) = 1

\* C27: work orders are processed strictly in topological order: the loop
\* goes through a fixed list that holds every work order exactly once, one
\* position per step; the start and end of a work order are assigned only in
\* the step at its own position, when every one of its parents has been
\* processed; a work order that has been processed is never assigned again
C27_ProcessedInTopologicalOrderOnce ==
    [][/\ pc' = "loop" => SortedIsPermutation'
       /\ (pc = "loop" /\ pc' = "loop") =>
             sortedWorkOrders' = sortedWorkOrders /\ cursor' = cursor + 1
       /\ \A i \in Positions :
             Reassigned(i) =>
                /\ InLoop
                /\ sortedWorkOrders[cursor] = updatedWorkOrders[i].docId
                /\ updatedWorkOrders[i].docId \notin Processed
                /\ ParentIds(updatedWorkOrders[i]) \subseteq Processed
                /\ cursor' = cursor + 1
                /\ \A j \in Positions \ {i} : ~Reassigned(j)]_vars

\* the second work order of the input, parent of the first, was processed
\* first; then the first was moved
C27_Witness ==
    /\ pc = "loop"
    /\ sortedWorkOrders = <<2, 1>>
    /\ cursor = 3
    /\ ParentIds(updatedWorkOrders[1]) = {2}
    /\ Len(changes) > 0
    /\ changes[Len(changes)].workOrderId = 1

\* ---------------------------------------------------------------- tie-break
\* where the work order with this id stands in sortedWorkOrders
SortedPosition(id) == CHOOSE k \in 1..Len(sortedWorkOrders) : sortedWorkOrders[k] = id

\* the parent that stands last in sortedWorkOrders: when the loop of
\* topologicalSort takes it from the queue the in-degree of the child reaches 0
ReleasedBy(workOrder) ==
    CHOOSE p \in ParentIds(workOrder) :
        \A q \in ParentIds(workOrder) : SortedPosition(q) <= SortedPosition(p)

\* C28: topologicalSort breaks ties by input order: work orders without
\* parents stand in the output in their input order, children released by
\* the same parent stand in their input order, and the output for an input
\* without any dependency is the input order
C28_TiesBrokenByInputOrder ==
    pc = "loop" =>
        /\ \A i, j \in Positions :
              (i < j /\ ParentIds(InputOrder(i)) = {} /\ ParentIds(InputOrder(j)) = {})
                  => SortedPosition(InputOrder(i).docId) < SortedPosition(InputOrder(j).docId)
        /\ \A i, j \in Positions :
              (/\ i < j
               /\ ParentIds(InputOrder(i)) # {}
               /\ ParentIds(InputOrder(j)) # {}
               /\ ReleasedBy(InputOrder(i)) = ReleasedBy(InputOrder(j)))
                  => SortedPosition(InputOrder(i).docId) < SortedPosition(InputOrder(j).docId)
        /\ (\A i \in Positions : ParentIds(InputOrder(i)) = {})
              => sortedWorkOrders = [i \in Positions |-> InputOrder(i).docId]

\* the second and the third work order both depend on the first alone
C28_Witness ==
    /\ pc = "loop"
    /\ Len(input.workOrders) = 3
    /\ ParentIds(InputOrder(1)) = {}
    /\ ParentIds(InputOrder(2)) = {1}
    /\ ParentIds(InputOrder(3)) = {1}
    /\ sortedWorkOrders = <<1, 2, 3>>

\* ------------------------------------------------------ duplicated parent id
RECURSIVE ListedOnce(_)
\* the ids of a list in the order of their first occurrence
ListedOnce(ids) ==
    IF Len(ids) = 0 THEN <<>>
    ELSE LET front == ListedOnce(SubSeq(ids, 1, Len(ids) - 1))
             last == ids[Len(ids)]
         IN IF \E k \in 1..Len(front) : front[k] = last THEN front
            ELSE Append(front, last)

\* the work order with every parent id listed once
ParentsListedOnce(workOrder) ==
    [workOrder EXCEPT !.dependsOnWorkOrderIds = ListedOnce(@)]

AllListedOnce(workOrders) ==
    [i \in 1..Len(workOrders) |-> ParentsListedOnce(workOrders[i])]

\* every listed parent id exists and some work order lists one more than once
HasDuplicateParent ==
    /\ \A i \in 1..Len(input.workOrders) :
          ParentIds(InputOrder(i)) \subseteq DocIds(input.workOrders)
    /\ \E i \in 1..Len(input.workOrders) :
          ListedOnce(InputOrder(i).dependsOnWorkOrderIds)
              # InputOrder(i).dependsOnWorkOrderIds

\* the work order that the loop has just been through
JustProcessed == updatedWorkOrders[IndexOf(updatedWorkOrders, sortedWorkOrders[cursor - 1])]

\* C29: a work order that lists an existing parent id more than once is
\* tolerated: buildDependencyGraph does not fail, detectCycles finds what it
\* finds with the id listed once, topologicalSort returns every work order
\* exactly once after its parents, and reflow computes for it the earliest
\* start, the reason and the validation outcome that it computes with the
\* id listed once
C29_DuplicateParentTolerated ==
    HasDuplicateParent =>
        /\ buildDependencyGraph(updatedWorkOrders).ok
        /\ detectCycles(buildDependencyGraph(updatedWorkOrders)).found
              = detectCycles(buildDependencyGraph(AllListedOnce(updatedWorkOrders))).found
        /\ topologicalSort(updatedWorkOrders)
              = topologicalSort(AllListedOnce(updatedWorkOrders))
        /\ error \notin {"DANGLING_DEPENDENCY", "TOPOLOGICAL_SORT_FAILED"}
        /\ pc = "loop" =>
              /\ SortedIsPermutation
              /\ \A i \in Positions : \A p \in ParentIds(Placed(i)) :
                    p # Placed(i).docId
                        => SortedPosition(p) < SortedPosition(Placed(i).docId)
        /\ (InLoop /\ ~IsSkipped(Current)) =>
              EarliestStart = calculateEarliestStartTime(ParentsListedOnce(Current),
                                  AllListedOnce(updatedWorkOrders), input.workCenters)
        /\ (pc = "loop" /\ cursor > 1 /\ Len(changes) > 0
                /\ changes[Len(changes)].workOrderId = JustProcessed.docId) =>
              changes[Len(changes)].reason
                  = generateChangeReason(ParentsListedOnce(JustProcessed),
                        AllListedOnce(updatedWorkOrders), input.workCenters)
        /\ LoopDone =>
              (Len(validateAll(updatedWorkOrders, input.workCenters).errors) = 0
                  <=> Len(validateAll(AllListedOnce(updatedWorkOrders),
                                      input.workCenters).errors) = 0)

\* the second work order lists the first twice, was moved behind it, and the
\* schedule was returned
C29_Witness ==
    /\ Succeeded
    /\ Len(input.workOrders) = 2
    /\ InputOrder(2).dependsOnWorkOrderIds = <<1, 1>>
    /\ sortedWorkOrders = <<1, 2>>
    /\ Len(changes) = 1
    /\ changes[1].workOrderId = 2
    /\ Placed(2).startDate = Placed(1).endDate

\* ---------------------------------------------------- missing work center
\* work order i can be moved and its work center is not in workCenters
OnMissingCenter(i) ==
    ~InputOrder(i).isMaintenance /\ CenterOf(InputOrder(i)) = {}

\* C31: when a non-maintenance work order references a work center that is
\* not in workCenters (and the dependencies are sound, so that the loop is
\* entered), reflow fails with the validation error, and its message has the
\* line of validateShiftBoundaries about the non-existent work center of
\* that work order
C31_MissingCenterFailsValidation ==
    (/\ pc \in {"done", "failed"}
     /\ ~DanglingParent(input.workOrders)
     /\ ~DependsOnCycle(input.workOrders)
     /\ \E i \in 1..Len(input.workOrders) : OnMissingCenter(i)) =>
        /\ pc = "failed"
        /\ error = "INVALID_SCHEDULE"
        /\ \A i \in 1..Len(input.workOrders) :
              OnMissingCenter(i) =>
                  \E k \in 1..Len(errorMessages) :
                      /\ errorMessages[k].wording = "references non-existent work center"
                      /\ errorMessages[k].workOrderNumbers
                             = <<InputOrder(i).workOrderNumber>>

\* ------------------------------------------------------------ change reason
\* the parents of the work order whose end, when the order is processed, is
\* later than the start the order has
LateParents(wo) ==
    {updatedWorkOrders[j].docId : j \in {k \in Positions :
        /\ updatedWorkOrders[k].docId \in ParentIds(wo)
        /\ updatedWorkOrders[k].endDate.t > wo.startDate.t}}

\* the other work orders of its work center that overlap the interval the
\* work order has when it is processed
Occupants(wo) ==
    {updatedWorkOrders[j].docId : j \in {k \in Positions :
        /\ updatedWorkOrders[k].docId # wo.docId
        /\ updatedWorkOrders[k].workCenterId = wo.workCenterId
        /\ HalfOpenOverlap(wo.startDate.t, wo.endDate.t,
                           updatedWorkOrders[k].startDate.t,
                           updatedWorkOrders[k].endDate.t)}}

\* C34: the reason of a change names its cause: a work order rescheduled
\* while a parent ends later than its original start has a reason that names
\* such a parent; a work order rescheduled, with no such parent, while
\* another work order occupies its interval on the work center has a reason
\* that names such an occupant
C34_ReasonNamesCause ==
    [][(InLoop /\ Len(changes') = Len(changes) + 1) =>
          LET wo == Current
              reason == changes'[Len(changes')].reason
          IN /\ LateParents(wo) # {} =>
                   \E d \in 1..Len(reason.waitingFor) :
                       reason.waitingFor[d] \in LateParents(wo)
             /\ (LateParents(wo) = {} /\ Occupants(wo) # {}) =>
                   \E d \in 1..Len(reason.busyWith) :
                       reason.busyWith[d] \in Occupants(wo)]_vars

\* ------------------------------------------- utility functions on their own
\* the longest duration handed to a utility function, in half hours
MaxProbeHalfHours == 20

\* Monday to Friday 08:00-17:00
StandardShifts == [d \in 1..5 |-> Shift(d, 8, 17)]

\* shift schedules: the standard week, a week with closed days in between,
\* short shifts, a single shift on Sunday (luxon weekday 7, dayOfWeek 0)
ProbeShiftSets == {StandardShifts, ShiftsA, ShiftsB, <<Shift(0, 9, 12)>>}

\* every half hour of one week, Sunday 00:00 to Saturday 23:30
ProbeInstants == {k * HalfHour : k \in 0..((7 * MinutesPerDay) \div HalfHour - 1)}

\* every sixth hour of that week
SparseInstants == {t \in ProbeInstants : t % (6 * MinutesPerHour) = 0}

ProbeDurations == {k * HalfHour : k \in 0..MaxProbeHalfHours}

Pending == [ok |-> FALSE, err |-> "pending", date |-> EmptyString]

\* a duration of as many hours as the shift arithmetic has iterations
LongDuration == maxIterationsShift * MinutesPerHour

\* the ends of the ranges compared: Monday 08:00, 09:00, 10:00 and 11:00, each
\* written with and without milliseconds
RangeDates == {[t |-> At(1, h), fmt |-> f] : h \in 8..11, f \in {"ms", "z"}}

\* no window, one window, two windows with a gap between them, two windows
\* that share an end
ProbeWindowLists ==
    {<<>>, <<Window(At(1, 9), At(1, 10))>>,
     <<Window(At(1, 8), At(1, 9)), Window(At(1, 10), At(1, 11))>>,
     <<Window(At(1, 10), At(1, 11)), Window(At(1, 9), At(1, 10))>>}

\* a boolean returned
Answered(value) == [ok |-> TRUE, err |-> "none", value |-> value]

\* the calls made: which function, with which arguments
ProbeCalls ==
    [fn : {"calculateEndDateWithShifts"}, date : {ToISO(t) : t \in ProbeInstants},
     durationMinutes : ProbeDurations, shifts : ProbeShiftSets,
     called : {FALSE}, result : {Pending}]
    \cup
    [fn : {"calculateEndDateWithShifts"}, date : {ToISO(At(1, 8)), ToISO(At(6, 12))},
     durationMinutes : {LongDuration}, shifts : ProbeShiftSets,
     called : {FALSE}, result : {Pending}]
    \cup
    [fn : {"adjustToShiftStart", "calculateEarliestStartTime"},
     date : {[t |-> t, fmt |-> f] : t \in ProbeInstants, f \in {"ms", "z"}},
     durationMinutes : {MinutesPerHour}, shifts : ProbeShiftSets,
     called : {FALSE}, result : {Pending}]
    \cup
    [fn : {"calculateEndDateWithShifts"}, date : {ToISO(t) : t \in SparseInstants},
     durationMinutes : {0, HalfHour, MinutesPerHour, LongDuration}, shifts : {<<>>},
     called : {FALSE}, result : {Pending}]
    \cup
    [fn : {"findNextShiftStart"}, date : {ToISO(t) : t \in ProbeInstants},
     shifts : ProbeShiftSets \cup {<<>>}, called : {FALSE}, result : {Pending}]
    \cup
    [fn : {"timeRangesOverlap"}, start1 : RangeDates, end1 : RangeDates,
     start2 : RangeDates, end2 : RangeDates, called : {FALSE}, result : {Pending}]
    \cup
    [fn : {"overlapsWithMaintenance"}, startDate : RangeDates, endDate : RangeDates,
     maintenanceWindows : ProbeWindowLists, called : {FALSE}, result : {Pending}]

ProbeInit ==
    /\ input = [workOrders |-> <<>>, workCenters |-> <<>>, manufacturingOrders |-> <<>>]
    /\ updatedWorkOrders = <<>>
    /\ changes = <<>>
    /\ sortedWorkOrders = <<>>
    /\ cursor = 0
    /\ pc = "probe"
    /\ error = "none"
    /\ errorNames = <<>>
    /\ errorMessages = <<>>
    /\ call = "first"
    /\ probe \in ProbeCalls
    /\ result = NoResult

CallCalculateEndDateWithShifts ==
    /\ probe.fn = "calculateEndDateWithShifts"
    /\ ~probe.called
    /\ probe' = [probe EXCEPT
                    !.called = TRUE,
                    !.result = calculateEndDateWithShifts(probe.date,
                                   probe.durationMinutes, probe.shifts)]
    /\ UNCHANGED <<input, updatedWorkOrders, changes, sortedWorkOrders, cursor, pc,
                   error, errorNames, errorMessages, call, result>>

\* the work center the probed schedule belongs to
ProbeCenter == WorkCenter(1, probe.shifts, <<>>)

\* a work order alone in its input: no parents, no other order, its end as
\* far after its start as its duration
LoneWorkOrder ==
    [docId |-> 1, workOrderNumber |-> WorkOrderNumber(1), workCenterId |-> 1,
     startDate |-> probe.date,
     endDate |-> [t |-> probe.date.t + probe.durationMinutes, fmt |-> probe.date.fmt],
     durationMinutes |-> probe.durationMinutes, isMaintenance |-> FALSE,
     dependsOnWorkOrderIds |-> <<>>]

CallAdjustToShiftStart ==
    /\ probe.fn = "adjustToShiftStart"
    /\ ~probe.called
    /\ probe' = [probe EXCEPT !.called = TRUE,
                              !.result = adjustToShiftStart(probe.date, ProbeCenter)]
    /\ UNCHANGED <<input, updatedWorkOrders, changes, sortedWorkOrders, cursor, pc,
                   error, errorNames, errorMessages, call, result>>

CallCalculateEarliestStartTime ==
    /\ probe.fn = "calculateEarliestStartTime"
    /\ ~probe.called
    /\ probe' = [probe EXCEPT
                    !.called = TRUE,
                    !.result = calculateEarliestStartTime(LoneWorkOrder,
                                   <<LoneWorkOrder>>, <<ProbeCenter>>)]
    /\ UNCHANGED <<input, updatedWorkOrders, changes, sortedWorkOrders, cursor, pc,
                   error, errorNames, errorMessages, call, result>>

CallFindNextShiftStart ==
    /\ probe.fn = "findNextShiftStart"
    /\ ~probe.called
    /\ probe' = [probe EXCEPT !.called = TRUE,
                              !.result = findNextShiftStart(probe.date, probe.shifts)]
    /\ UNCHANGED <<input, updatedWorkOrders, changes, sortedWorkOrders, cursor, pc,
                   error, errorNames, errorMessages, call, result>>

CallTimeRangesOverlap ==
    /\ probe.fn = "timeRangesOverlap"
    /\ ~probe.called
    /\ probe' = [probe EXCEPT
                    !.called = TRUE,
                    !.result = Answered(timeRangesOverlap(probe.start1, probe.end1,
                                                          probe.start2, probe.end2))]
    /\ UNCHANGED <<input, updatedWorkOrders, changes, sortedWorkOrders, cursor, pc,
                   error, errorNames, errorMessages, call, result>>

CallOverlapsWithMaintenance ==
    /\ probe.fn = "overlapsWithMaintenance"
    /\ ~probe.called
    /\ probe' = [probe EXCEPT
                    !.called = TRUE,
                    !.result = Answered(overlapsWithMaintenance(probe.startDate,
                                            probe.endDate, probe.maintenanceWindows))]
    /\ UNCHANGED <<input, updatedWorkOrders, changes, sortedWorkOrders, cursor, pc,
                   error, errorNames, errorMessages, call, result>>

ProbeNext ==
    \/ CallCalculateEndDateWithShifts
    \/ CallAdjustToShiftStart
    \/ CallCalculateEarliestStartTime
    \/ CallTimeRangesOverlap
    \/ CallOverlapsWithMaintenance
    \/ CallFindNextShiftStart

DateUtilsSpec == ProbeInit /\ [][ProbeNext]_vars

\* the returned end is the first instant by which exactly durationMinutes of
\* in-shift time have passed since the start, and it lies in
\* (shiftStart, shiftEnd] of a day that has a shift
EndOfFullDuration ==
    /\ probe.result.ok
    /\ InShiftMinutes(probe.date.t, probe.result.date.t, probe.shifts)
           = probe.durationMinutes
    /\ InShiftMinutes(probe.date.t, probe.result.date.t - 1, probe.shifts)
           < probe.durationMinutes
    /\ InsideOrClosingShift(probe.result.date.t, probe.shifts)

\* the days the shift arithmetic can always cross: a day takes at most two
\* iterations of its loop
DaysWithinCap == (maxIterationsShift \div 2) - 1

\* C17 as stated: for every start, every duration > 0 and every schedule with
\* a shift, calculateEndDateWithShifts returns the first instant by which
\* exactly durationMinutes of in-shift time have passed since the start, in
\* (shiftStart, shiftEnd] of a day that has a shift
C17_EndIsFirstInstantOfFullDuration ==
    (probe.fn = "calculateEndDateWithShifts" /\ probe.called
         /\ Len(probe.shifts) > 0 /\ probe.durationMinutes > 0) => EndOfFullDuration

\* what calculateEndDateWithShifts does beyond C17: for every start, every duration > 0 and every schedule with a
\* shift, calculateEndDateWithShifts either returns that first instant or
\* fails at its iteration cap, and it fails only for a duration that exceeds
\* the in-shift time of the DaysWithinCap days after the start
C17_EndIsFirstInstantUnlessCapped ==
    (probe.fn = "calculateEndDateWithShifts" /\ probe.called
         /\ Len(probe.shifts) > 0 /\ probe.durationMinutes > 0) =>
        \/ EndOfFullDuration
        \/ /\ probe.result = Thrown("SHIFT_CALC_CAP")
           /\ InShiftMinutes(probe.date.t,
                             probe.date.t + DaysWithinCap * MinutesPerDay,
                             probe.shifts) < probe.durationMinutes

\* 120 minutes from Friday 16:00 under the standard shifts end Monday 09:00
C17_Witness ==
    /\ probe.fn = "calculateEndDateWithShifts"
    /\ probe.called
    /\ probe.shifts = StandardShifts
    /\ probe.date.t = At(5, 16)
    /\ probe.durationMinutes = 2 * MinutesPerHour
    /\ probe.result = Returned(ToISO(At(8, 9)))

\* the shift of the probed schedule on the day of instant t, if any
ShiftsOnDayOf(t) ==
    {k \in 1..Len(probe.shifts) :
        probe.shifts[k].dayOfWeek = (t \div MinutesPerDay) % 7}

\* C18: shift alignment of t returns the least instant >= t inside a shift
\* window: t itself (the same string) when t is inside a shift, the day's
\* shift start when t is before it, a later day's shift start otherwise; a
\* work order alone in its input gets exactly that instant as earliest start
C18_AlignmentIsLeastInstantInShift ==
    (probe.fn \in {"adjustToShiftStart", "calculateEarliestStartTime"}
         /\ probe.called) =>
        /\ probe.result.ok
        /\ probe.result.date.t >= probe.date.t
        /\ InsideShift(probe.result.date.t, probe.shifts)
        /\ InShiftMinutes(probe.date.t, probe.result.date.t, probe.shifts) = 0
        /\ InsideShift(probe.date.t, probe.shifts) => probe.result.date = probe.date
        /\ \A k \in ShiftsOnDayOf(probe.date.t) :
              probe.date.t % MinutesPerDay < probe.shifts[k].startHour * MinutesPerHour
                  => probe.result.date.t
                         = (probe.date.t \div MinutesPerDay) * MinutesPerDay
                               + probe.shifts[k].startHour * MinutesPerHour
        /\ ~InsideShift(probe.date.t, probe.shifts) =>
              \E k \in ShiftsOnDayOf(probe.result.date.t) :
                  probe.result.date.t % MinutesPerDay
                      = probe.shifts[k].startHour * MinutesPerHour

\* the closing instant of Friday's shift is aligned to Monday 08:00
C18_Witness ==
    /\ probe.fn = "adjustToShiftStart"
    /\ probe.called
    /\ probe.shifts = StandardShifts
    /\ probe.date.t = At(5, 17)
    /\ probe.result = Returned(ToISO(At(8, 8)))

\* ------------------------------------------------------------ range overlap
\* C25: timeRangesOverlap(a0, a1, b0, b1) is true exactly when a0 < b1 and
\* a1 > b0 as instants; it gives the same answer with the two ranges swapped;
\* ranges that only touch (a1 = b0) do not overlap; overlapsWithMaintenance is
\* true exactly when timeRangesOverlap holds of the range and at least one
\* of the maintenance windows
C25_OverlapIsStrictAndSymmetric ==
    /\ (probe.fn = "timeRangesOverlap" /\ probe.called) =>
          /\ probe.result.value
                 <=> (probe.start1.t < probe.end2.t /\ probe.end1.t > probe.start2.t)
          /\ probe.result.value
                 <=> timeRangesOverlap(probe.start2, probe.end2, probe.start1, probe.end1)
          /\ probe.end1.t = probe.start2.t => ~probe.result.value
    /\ (probe.fn = "overlapsWithMaintenance" /\ probe.called) =>
          (probe.result.value
              <=> \E k \in 1..Len(probe.maintenanceWindows) :
                     /\ probe.startDate.t < probe.maintenanceWindows[k].endDate.t
                     /\ probe.endDate.t > probe.maintenanceWindows[k].startDate.t
                     /\ timeRangesOverlap(probe.startDate, probe.endDate,
                                          probe.maintenanceWindows[k].startDate,
                                          probe.maintenanceWindows[k].endDate))

\* 08:00-09:00 and 09:00-10:00, written differently, touch and do not overlap
C25_Witness ==
    /\ probe.fn = "timeRangesOverlap"
    /\ probe.called
    /\ probe.start1.t = At(1, 8) /\ probe.end1 = [t |-> At(1, 9), fmt |-> "z"]
    /\ probe.start2 = [t |-> At(1, 9), fmt |-> "ms"] /\ probe.end2.t = At(1, 10)
    /\ probe.result = Answered(FALSE)

\* ------------------------------------------------------ validateAll on its own
\* validateAll is called with the work orders and work centers of an input
ValidatorInit ==
    /\ IsInput(input)
    /\ updatedWorkOrders = input.workOrders
    /\ changes = <<>>
    /\ sortedWorkOrders = <<>>
    /\ cursor = 0
    /\ pc = "probe"
    /\ error = "none"
    /\ errorNames = <<>>
    /\ errorMessages = <<>>
    /\ call = "first"
    /\ probe = [fn |-> "validateAll", called |-> FALSE, result |-> Pending]
    /\ result = NoResult

CallValidateAll ==
    /\ probe.fn = "validateAll"
    /\ ~probe.called
    /\ probe' = [probe EXCEPT
                    !.called = TRUE,
                    !.result = validateAll(updatedWorkOrders, input.workCenters)]
    /\ UNCHANGED <<input, updatedWorkOrders, changes, sortedWorkOrders, cursor, pc,
                   error, errorNames, errorMessages, call, result>>

ValidatorSpec == ValidatorInit /\ [][CallValidateAll]_vars

\* work order i starts strictly before the end of its parent at position j
ParentEndsAfterStart(i, j) ==
    /\ Placed(j).docId \in ParentIds(Placed(i))
    /\ Placed(j).endDate.t > Placed(i).startDate.t

\* the work orders at i and j are on the same work center and overlap
OverlapOnCenter(i, j) ==
    /\ i # j
    /\ Placed(i).workCenterId = Placed(j).workCenterId
    /\ HalfOpenOverlap(Placed(i).startDate.t, Placed(i).endDate.t,
                       Placed(j).startDate.t, Placed(j).endDate.t)

\* the work center of work order i exists, has a shift, and the order starts
\* inside one of its shifts
StartsInShiftOfItsCenter(i) ==
    /\ CenterOf(Placed(i)) # {}
    /\ \A c \in CenterOf(Placed(i)) :
          Len(c.shifts) > 0 /\ InsideShift(Placed(i).startDate.t, c.shifts)

\* the constraints hold of the work orders and work centers given
AllConstraintsHold ==
    /\ ~DependsOnCycle(updatedWorkOrders)
    /\ \A i, j \in Positions : ~ParentEndsAfterStart(i, j)
    /\ \A i, j \in Positions : ~OverlapOnCenter(i, j)
    /\ \A i \in Positions : StartsInShiftOfItsCenter(i)
    /\ \A i \in Positions : ~OverlapsWindow(i)

\* how many of the errors have this type and name these work orders
ErrorsAbout(errors, type, ids) ==
    Cardinality({k \in 1..Len(errors) :
                    errors[k].type = type /\ errors[k].workOrderIds = ids})

\* C30: validateAll returns an empty list if and only if there is no
\* dependency cycle, no parent ends strictly after its child starts, no two
\* work orders of one work center overlap, every work order starts inside a
\* shift of an existing work center that has shifts, and no work order
\* overlaps a maintenance window of its work center; each overlapping pair
\* and each violating (child, parent) pair has exactly one error
C30_EmptyListIffAllConstraintsHold ==
    (probe.fn = "validateAll" /\ probe.called) =>
        /\ (probe.result.ok /\ Len(probe.result.errors) = 0) <=> AllConstraintsHold
        /\ \A i, j \in Positions :
              ParentEndsAfterStart(i, j) =>
                  ErrorsAbout(probe.result.errors, "DEPENDENCY_VIOLATION",
                              <<Placed(i).docId, Placed(j).docId>>) = 1
        /\ \A i, j \in Positions :
              (i < j /\ OverlapOnCenter(i, j)) =>
                  ErrorsAbout(probe.result.errors, "WORK_CENTER_CONFLICT",
                              <<Placed(i).docId, Placed(j).docId>>) = 1

\* ------------------------------------------------------------ zero duration
\* C32: calculateEndDateWithShifts(start, 0, shifts) returns the instant
\* start, aligned to no shift; in every successful result a non-maintenance
\* work order of duration 0 ends at the instant it starts, and starts inside
\* a shift of its work center
C32_ZeroDurationEndsAtStart ==
    /\ (probe.fn = "calculateEndDateWithShifts" /\ probe.called
            /\ probe.durationMinutes = 0) =>
          probe.result = Returned(ToISO(probe.date.t))
    /\ Succeeded =>
          \A i \in Positions :
              (~Placed(i).isMaintenance /\ Placed(i).durationMinutes = 0) =>
                  /\ Placed(i).endDate.t = Placed(i).startDate.t
                  /\ ~StartsOutsideShift(i)

\* ------------------------------------------- work center without shifts
\* reflow is called, or a utility function is called on its own
ReflowOrProbeInit == Init \/ ProbeInit

ReflowOrProbeNext == Next \/ ProbeNext

ReflowOrProbeSpec == ReflowOrProbeInit /\ [][ReflowOrProbeNext]_vars

\* work order i can be moved and its work center has no shift
OnShiftlessCenter(i) ==
    /\ ~InputOrder(i).isMaintenance
    /\ \E c \in CenterOf(InputOrder(i)) : Len(c.shifts) = 0

\* C33: with an empty shift set calculateEndDateWithShifts for a duration > 0
\* and findNextShiftStart both fail at their iteration caps; a reflow call
\* on an input with a non-maintenance work order on a work center without
\* shifts returns no schedule, and when its dependencies are sound it fails
\* at the cap of findNextShiftStart
C33_ShiftlessCenterFailsAtCap ==
    /\ (probe.fn = "calculateEndDateWithShifts" /\ probe.called
            /\ Len(probe.shifts) = 0 /\ probe.durationMinutes > 0) =>
          probe.result = Thrown("SHIFT_CALC_CAP")
    /\ (probe.fn = "findNextShiftStart" /\ probe.called) =>
          (probe.result = Thrown("NEXT_SHIFT_CAP") <=> Len(probe.shifts) = 0)
    /\ (\E i \in 1..Len(input.workOrders) : OnShiftlessCenter(i)) =>
          /\ pc # "done"
          /\ ~result.returned
          /\ (pc = "failed" /\ ~DanglingParent(input.workOrders)
                  /\ ~DependsOnCycle(input.workOrders)) => error = "NEXT_SHIFT_CAP"

\* reflow has failed at the cap of findNextShiftStart: the second work order
\* is on the work center without shifts, the first was processed before it
C33_Witness ==
    /\ pc = "failed"
    /\ error = "NEXT_SHIFT_CAP"
    /\ Len(input.workOrders) = 2
    /\ OnShiftlessCenter(2)
    /\ ~OnShiftlessCenter(1)
    /\ cursor = 2
    /\ changes = <<>>

\* ------------------------------------------------- getAllDescendants on its own
\* the inputs whose dependency graphs getAllDescendants is called on
GraphFamilies ==
    {[n |-> 2, shapes |-> TinyShapes, graphs |-> PairGraphs \cup OddPairGraphs,
      centers |-> {PlainCenters}, manufacturing |-> {<<>>}],
     [n |-> MaxWorkOrders, shapes |-> LoneShapes,
      graphs |-> LongGraphs(MaxWorkOrders) \cup KnottedGraphs(MaxWorkOrders)
                     \cup TwiceListedGraphs(MaxWorkOrders),
      centers |-> {PlainCenters}, manufacturing |-> {<<>>}]}

IsGraphInput(in) ==
    \E fam \in GraphFamilies : \E f \in [1..fam.n -> fam.shapes] :
        \E g \in fam.graphs : \E c \in fam.centers : \E m \in fam.manufacturing :
            in = [workOrders |-> [i \in 1..fam.n |-> WorkOrder(i, f[i], g[i])],
                  workCenters |-> c, manufacturingOrders |-> m]

\* getAllDescendants is called with the id of one of the work orders
ResolverInit ==
    /\ IsGraphInput(input)
    /\ updatedWorkOrders = input.workOrders
    /\ changes = <<>>
    /\ sortedWorkOrders = <<>>
    /\ cursor = 0
    /\ pc = "probe"
    /\ error = "none"
    /\ errorNames = <<>>
    /\ errorMessages = <<>>
    /\ call = "first"
    /\ \E id \in DocIds(input.workOrders) :
          probe = [fn |-> "getAllDescendants", workOrderId |-> id,
                   called |-> FALSE, result |-> Pending]
    /\ result = NoResult

CallGetAllDescendants ==
    /\ probe.fn = "getAllDescendants"
    /\ ~probe.called
    /\ probe' = [probe EXCEPT
                    !.called = TRUE,
                    !.result = getAllDescendants(probe.workOrderId, updatedWorkOrders)]
    /\ UNCHANGED <<input, updatedWorkOrders, changes, sortedWorkOrders, cursor, pc,
                   error, errorNames, errorMessages, call, result>>

ResolverSpec == ResolverInit /\ [][CallGetAllDescendants]_vars

\* the work orders that depend on id through one or more dependencies
TransitiveDependents(id) ==
    {Placed(i).docId : i \in {k \in Positions :
        id \in Ancestry(updatedWorkOrders, ParentIds(Placed(k)),
                        Len(updatedWorkOrders))}}

\* where id stands in the list returned
ReturnedPosition(id) ==
    CHOOSE k \in 1..Len(probe.result.order) : probe.result.order[k] = id

\* C35: for an acyclic set of work orders whose parent ids all exist and a
\* work order id that has at least one dependent, getAllDescendants returns
\* the transitive dependents of id, each once, without id, every one of them
\* after those of its parents that are among them
C35_DescendantsInTopologicalOrder ==
    (/\ probe.fn = "getAllDescendants"
     /\ probe.called
     /\ ~DependsOnCycle(updatedWorkOrders)
     /\ ~DanglingParent(updatedWorkOrders)
     /\ TransitiveDependents(probe.workOrderId) # {}) =>
        /\ probe.result.ok
        /\ {probe.result.order[k] : k \in 1..Len(probe.result.order)}
               = TransitiveDependents(probe.workOrderId)
        /\ Len(probe.result.order) = Cardinality(TransitiveDependents(probe.workOrderId))
        /\ probe.workOrderId \notin TransitiveDependents(probe.workOrderId)
        /\ \A i \in Positions :
              Placed(i).docId \in TransitiveDependents(probe.workOrderId) =>
                  \A p \in ParentIds(Placed(i)) \cap TransitiveDependents(probe.workOrderId) :
                      ReturnedPosition(p) < ReturnedPosition(Placed(i).docId)

\* ------------------------------------------------ the slot search, step by step
\* the candidate starts that the slot search examines, each as
\* adjustToShiftStart returned it, in the order of the iterations; the list
\* ends where the search is left, or with the first candidate that is not
\* later than the one before it
RECURSIVE SlotCandidates(_, _, _, _, _, _)
SlotCandidates(candidateStart, iterations, workOrder, allWorkOrders, workCenter, examined) ==
    IF ~(iterations < maxIterationsSlot) THEN examined
    ELSE LET Try(adjustedStart, candidateEnd) ==
                 IF \/ ~candidateEnd.ok
                    \/ isSlotAvailable(adjustedStart, candidateEnd.date, workOrder,
                                       allWorkOrders, workCenter)
                    \/ /\ Len(examined) > 0
                       /\ ~(FromISO(adjustedStart) > FromISO(examined[Len(examined)]))
                 THEN Append(examined, adjustedStart)
                 ELSE SlotCandidates(findNextPotentialStart(adjustedStart,
                                         candidateEnd.date, workOrder, allWorkOrders,
                                         workCenter),
                                     iterations + 1, workOrder, allWorkOrders,
                                     workCenter, Append(examined, adjustedStart))
             From(adjusted) ==
                 IF ~adjusted.ok THEN examined
                 ELSE Try(adjusted.date,
                          calculateEndDateWithShifts(adjusted.date,
                              workOrder.durationMinutes, workCenter.shifts))
         IN From(adjustToShiftStart(candidateStart, workCenter))

\* the candidates of the slot search that the next statement of reflow runs
CurrentCandidates ==
    SlotCandidates(DependencyFloor(Current, updatedWorkOrders), 0, Current,
                   updatedWorkOrders,
                   WorkCenterGet(input.workCenters, Current.workCenterId), <<>>)

\* C36: in the slot search every iteration that does not return strictly
\* increases the candidate start: each candidate examined is later than the
\* one examined before it, so no candidate is examined twice
C36_CandidatesStrictlyIncrease ==
    (InLoop /\ ~IsSkipped(Current)) =>
        \E examined \in {CurrentCandidates} :
            \A k \in 1..Len(examined) - 1 :
                FromISO(examined[k]) < FromISO(examined[k + 1])

\* a slot search that examines three candidates or more
C36_Witness ==
    /\ InLoop
    /\ ~IsSkipped(Current)
    /\ Len(CurrentCandidates) >= 3

\* ------------------------------------------------------- never moved earlier
\* no work order of the result starts before it started in the input
NoneStartsEarlier ==
    \A i \in Positions :
        FromISO(Placed(i).startDate) >= FromISO(InputOrder(i).startDate)

\* C37: reflow never moves a work order earlier: in a successful result
\* every work order starts at or after its input start, and every change
\* has a new start strictly later than the original start
C37_NeverMovedEarlier ==
    Succeeded =>
        /\ NoneStartsEarlier
        /\ \A k \in 1..Len(changes) :
              FromISO(changes[k].newStartDate) > FromISO(changes[k].originalStartDate)

\* ------------------------------------------------------------ left untouched
\* the work orders that a change is recorded for
ChangedIds == {changes[k].workOrderId : k \in 1..Len(changes)}

\* the end that calculateEndDateWithShifts gives for the work order's start
\* and duration is not the end it has
EndIsStale(i) ==
    \E workCenter \in CenterOf(Placed(i)) :
        \E end \in {calculateEndDateWithShifts(Placed(i).startDate,
                         Placed(i).durationMinutes, workCenter.shifts)} :
            end.ok /\ FromISO(end.date) # FromISO(Placed(i).endDate)

WithDatesOf(workOrder, other) ==
    [workOrder EXCEPT !.startDate = other.startDate, !.endDate = other.endDate]

\* C39: in every successful result updatedWorkOrders is as long as the input
\* list and holds the same docIds at the same positions (input order, not
\* topological order), and every field of a work order other than startDate
\* and endDate has its input value
C39_ResultKeepsInputShape ==
    Succeeded =>
        /\ Len(updatedWorkOrders) = Len(input.workOrders)
        /\ \A i \in 1..Len(input.workOrders) :
              /\ Placed(i).docId = InputOrder(i).docId
              /\ WithDatesOf(Placed(i), InputOrder(i)) = InputOrder(i)

\* a successful result whose work orders were processed in an order other
\* than the input order and one of which was given new dates
C39_Witness ==
    /\ Succeeded
    /\ sortedWorkOrders # [i \in 1..Len(input.workOrders) |-> InputOrder(i).docId]
    /\ \E i \in Positions :
          /\ Placed(i).startDate # InputOrder(i).startDate
          /\ Placed(i).endDate # InputOrder(i).endDate

\* ---------------------------------------------------- the one-hour advance
\* for every call of findNextPotentialStart that the slot search makes, in
\* the order of the iterations: the number of blocking periods it collects
RECURSIVE SlotBlockers(_, _, _, _, _, _)
SlotBlockers(candidateStart, iterations, workOrder, allWorkOrders, workCenter, counted) ==
    IF ~(iterations < maxIterationsSlot) THEN counted
    ELSE LET Try(adjustedStart, candidateEnd) ==
                 IF \/ ~candidateEnd.ok
                    \/ isSlotAvailable(adjustedStart, candidateEnd.date, workOrder,
                                       allWorkOrders, workCenter)
                 THEN counted
                 ELSE SlotBlockers(findNextPotentialStart(adjustedStart,
                                       candidateEnd.date, workOrder, allWorkOrders,
                                       workCenter),
                                   iterations + 1, workOrder, allWorkOrders, workCenter,
                                   Append(counted,
                                       Len(BlockingPeriods(adjustedStart,
                                               candidateEnd.date, workOrder,
                                               allWorkOrders, workCenter))))
             From(adjusted) ==
                 IF ~adjusted.ok THEN counted
                 ELSE Try(adjusted.date,
                          calculateEndDateWithShifts(adjusted.date,
                              workOrder.durationMinutes, workCenter.shifts))
         IN From(adjustToShiftStart(candidateStart, workCenter))

\* the blocker counts of the slot search that the next statement of reflow runs
CurrentBlockers ==
    SlotBlockers(DependencyFloor(Current, updatedWorkOrders), 0, Current,
                 updatedWorkOrders,
                 WorkCenterGet(input.workCenters, Current.workCenterId), <<>>)

\* C40: the one-hour advance of findNextPotentialStart is never taken when
\* the slot search calls it: whenever isSlotAvailable refuses a candidate
\* interval, another work order on the work center or a maintenance window
\* overlaps that interval, so the list of blocking periods is not empty
C40_HourAdvanceNeverTaken ==
    (InLoop /\ ~IsSkipped(Current)) =>
        \E counted \in {CurrentBlockers} :
            \A k \in 1..Len(counted) : counted[k] > 0

\* a slot search that is refused a candidate by a maintenance window alone
\* and another by a work order
C40_Witness ==
    /\ InLoop
    /\ ~IsSkipped(Current)
    /\ Len(CurrentBlockers) >= 2
    /\ \E workCenter \in CenterOf(Current) :
          \E examined \in {CurrentCandidates} :
              \E k \in 1..Len(examined) - 1 :
                  \E end \in {calculateEndDateWithShifts(examined[k],
                                   Current.durationMinutes, workCenter.shifts)} :
                      /\ end.ok
                      /\ Len(ConflictingOrders(examined[k], end.date, Current,
                                               updatedWorkOrders)) = 0
                      /\ overlapsWithMaintenance(examined[k], end.date,
                                                 workCenter.maintenanceWindows)

\* -------------------------------------------------------------- termination
\* the number of iterations that the loop of calculateEndDateWithShifts has
\* made when it is left
RECURSIVE CalcEndCount(_, _)
CalcEndCount(st, shifts) ==
    IF CalcEndRunning(st)
    THEN LET s1 == CalcEndStep(st, shifts)
             s2 == CalcEndStep(s1, shifts)
             s3 == CalcEndStep(s2, shifts)
             s4 == CalcEndStep(s3, shifts)
             s5 == CalcEndStep(s4, shifts)
             s6 == CalcEndStep(s5, shifts)
             s7 == CalcEndStep(s6, shifts)
             s8 == CalcEndStep(s7, shifts)
         IN CalcEndCount(s8, shifts)
    ELSE st.iterations

CalcEndIterations(startDate, durationMinutes, shifts) ==
    CalcEndCount([currentDate |-> FromISO(startDate),
                  remainingMinutes |-> durationMinutes, iterations |-> 0], shifts)

\* the number of iterations (days looked at) that the loop of
\* findNextShiftStart has made when it is left
NextShiftCount(currentDate, iterations, shifts) ==
    NextShiftRun([currentDate |-> currentDate, iterations |-> iterations,
                  found |-> FALSE], shifts).iterations

\* the iterations of findNextShiftStart when adjustToShiftStart calls it, 0
\* when it does not
ScanIterations(date, workCenter) ==
    IF workCenter = NoWorkCenter THEN 0
    ELSE LET dt == FromISO(date)
             shift == FindShift(workCenter.shifts, DayOfWeek(dt))
             currentMinutes == dt - StartOfDay(dt)
         IN IF shift = NoShift \/ currentMinutes >= shift.endHour * MinutesPerHour
            THEN NextShiftCount(dt, 0, workCenter.shifts)
            ELSE 0

\* the iterations of the slot search when it is left, and the most
\* iterations that a next-shift scan and an end-date calculation made in it
RECURSIVE SlotCounts(_, _, _, _, _)
SlotCounts(candidateStart, iterations, workOrder, allWorkOrders, workCenter) ==
    IF ~(iterations < maxIterationsSlot)
    THEN [slot |-> iterations, scan |-> 0, calc |-> 0]
    ELSE LET scan == ScanIterations(candidateStart, workCenter)
             Left(calc) == [slot |-> iterations + 1, scan |-> scan, calc |-> calc]
             Over(rest, calc) ==
                 [slot |-> rest.slot, scan |-> Maximum(scan, rest.scan),
                  calc |-> Maximum(calc, rest.calc)]
             Try(adjustedStart, candidateEnd, calc) ==
                 IF ~candidateEnd.ok
                    \/ isSlotAvailable(adjustedStart, candidateEnd.date, workOrder,
                                       allWorkOrders, workCenter)
                 THEN Left(calc)
                 ELSE Over(SlotCounts(findNextPotentialStart(adjustedStart,
                                          candidateEnd.date, workOrder, allWorkOrders,
                                          workCenter),
                                      iterations + 1, workOrder, allWorkOrders,
                                      workCenter), calc)
             From(adjusted) ==
                 IF ~adjusted.ok THEN Left(0)
                 ELSE Try(adjusted.date,
                          calculateEndDateWithShifts(adjusted.date,
                              workOrder.durationMinutes, workCenter.shifts),
                          CalcEndIterations(adjusted.date, workOrder.durationMinutes,
                                            workCenter.shifts))
         IN From(adjustToShiftStart(candidateStart, workCenter))

\* two work orders; an acyclic pair, a cycle, a dangling parent; work centers
\* as they should be, one without shifts, one missing
SmallFamilies ==
    {[n |-> 2, shapes |-> TinyShapes,
      graphs |-> PairGraphs \cup {<<<<2>>, <<1>>>>, <<<<>>, <<9>>>>},
      centers |-> {PlainCenters, ShiftlessCenter, MissingCenter},
      manufacturing |-> {<<>>}]}

IsSmallInput(in) ==
    \E fam \in SmallFamilies : \E f \in [1..fam.n -> fam.shapes] :
        \E g \in fam.graphs : \E c \in fam.centers : \E m \in fam.manufacturing :
            in = [workOrders |-> [i \in 1..fam.n |-> WorkOrder(i, f[i], g[i])],
                  workCenters |-> c, manufacturingOrders |-> m]

\* reflow is entered with one of the small inputs
FairInit ==
    /\ IsSmallInput(input)
    /\ updatedWorkOrders = input.workOrders
    /\ changes = <<>>
    /\ sortedWorkOrders = <<>>
    /\ cursor = 0
    /\ pc = "sort"
    /\ error = "none"
    /\ errorNames = <<>>
    /\ errorMessages = <<>>
    /\ call = "first"
    /\ probe = NoProbe
    /\ result = NoResult

\* the loop body of reflow for a work order that is not skipped
ProcessStep == KeepWorkOrder \/ RescheduleWorkOrder \/ EarliestStartThrows

\* the final validation
ValidateStep == ValidationPasses \/ ValidationFails

\* reflow is synchronous and single-threaded: once entered, it runs its next
\* statement; whether the caller calls again is left open.  The last two
\* conjuncts are WF_vars(ProcessStep) and WF_vars(ValidateStep) with
\* ENABLED <<ProcessStep>>_vars and ENABLED <<ValidateStep>>_vars written as
\* the state predicates they are equal to
FairSpec ==
    /\ FairInit
    /\ [][Next]_vars
    /\ WF_vars(TopologicalSortReturns \/ TopologicalSortThrows)
    /\ WF_vars(SkipMaintenance)
    /\ []<>(InLoop => IsSkipped(Current)) \/ []<><<ProcessStep>>_vars
    /\ []<>(~LoopDone) \/ []<><<ValidateStep>>_vars

Running == pc \in {"sort", "loop"}

Ended == pc \in {"done", "failed"}

\* the loops that the next statement of reflow runs stay within their caps:
\* the slot search, the next-shift scans and the end-date calculations made
\* for the current work order; cycle detection enters each node at most once
\* and the queue of the sort hands out each node at most once
IterationsWithinCaps ==
    /\ (InLoop /\ ~IsSkipped(Current)) =>
          \E c \in {SlotCounts(DependencyFloor(Current, updatedWorkOrders), 0, Current,
                               updatedWorkOrders,
                               WorkCenterGet(input.workCenters, Current.workCenterId))} :
              /\ c.slot <= maxIterationsSlot
              /\ c.scan <= maxIterationsNextShift
              /\ c.calc <= maxIterationsShift
    /\ pc = "sort" =>
          \E graph \in {buildDependencyGraph(updatedWorkOrders)} :
              graph.ok =>
                  \E cycles \in {detectCycles(graph)} :
                      /\ cycles.visits <= Len(updatedWorkOrders)
                      /\ ~cycles.found =>
                            Len(KahnLoop(graph,
                                    [id \in DOMAIN graph.node |->
                                        Len(graph.node[id].parents)],
                                    SelectSeq(graph.keys, LAMBDA id :
                                        Len(graph.node[id].parents) = 0),
                                    <<>>)) <= Len(updatedWorkOrders)

\* C23: every reflow call terminates, by returning a result or by raising an
\* error: the end-date loop stops within 1000 iterations, the slot search
\* within 1000 iterations, the next-shift scan within 100 days, and the
\* topological sort and the cycle detection visit each node a bounded number
\* of times.
C23_EveryCallTerminates ==
    /\ Running ~> Ended
    /\ []IterationsWithinCaps

\* a call that ended because the next-shift scan for its current work order
\* used up its 100 days
C23_Witness ==
    /\ pc = "failed"
    /\ error = "NEXT_SHIFT_CAP"
    /\ SlotCounts(DependencyFloor(Current, updatedWorkOrders), 0, Current,
                  updatedWorkOrders,
                  WorkCenterGet(input.workCenters, Current.workCenterId)).scan
           = maxIterationsNextShift

====
